---- MODULE Spec2Model ----
(***************************************************************************)
(* Size-chart scraper: the detection -> interaction -> extraction pipeline *)
(* of src/scraper.py (SizeChartScraper.run) and of its second entry in     *)
(* src/product_updater.py (scrape_size_chart), with the file-backed        *)
(* domain cache brand_types.json shared by every pipeline instance, and    *)
(* the batch updater that drives it (src/product_updater.py, main).        *)
(*                                                                         *)
(* Specifications:                                                         *)
(*   Spec        one pipeline after the other, step by step;               *)
(*   SpecCache   pipeline instances running at once against the shared     *)
(*               cache file, whose open/write steps interleave;            *)
(*   SpecLoad    Spec started on a cache file written by someone else;     *)
(*   SpecDetect  the in-page classifier of detect_size_chart_type as a     *)
(*               function of the probes a page trips;                      *)
(*   SpecExtract extract_content and the gallery fallback of run as a      *)
(*               function of the document;                                 *)
(*   SpecRender  result_to_html as a function of the result;               *)
(*   SpecBatch   main of src/product_updater.py: the batches over the      *)
(*               table, the outcome of every product, progress.json;       *)
(*   SpecBatchLive  SpecBatch with main taking its next step.              *)
(***************************************************************************)
EXTENDS Integers, Sequences, FiniteSets, TLC

VARIABLES
    dPage,      \* SpecDetect: the page handed to detect_size_chart_type
    dResult,    \* SpecDetect: what page.evaluate returned, or NoResult
    scraper,    \* Spec: per instance, the SizeChartScraper object and its run
    file,       \* Spec: brand_types.json on disk
    completed,  \* Spec: the mappings a save_brand_cache call wrote to its end
    xPage,      \* SpecExtract: the page handed to extract_content
    xRun,       \* SpecExtract: the progress of the extraction and the fallback
    rResult,    \* SpecRender: the result handed to result_to_html
    rHtml,      \* SpecRender: what result_to_html returned, or NoHtml
    batch       \* SpecBatch: the batch updater's main, its table and progress file

vars == <<dPage, dResult, scraper, file, completed, xPage, xRun, rResult, rHtml, batch>>

(***************************************************************************)
(* Bounds of the model.                                                    *)
(***************************************************************************)
\* pipeline instances alive at once (the caller's worker pool)
NumInstances == 2
\* how many inline selectors may match visibly on one page of SpecDetect
MaxInlineMatches == 2

None == "None"

(***************************************************************************)
(* get_domain: the cache key of a URL.  A netloc is modelled as its        *)
(* sequence of dot-separated labels.                                       *)
(***************************************************************************)
LowerLabel(l) ==
    CASE l = "WWW"  -> "www"
      [] l = "Shop" -> "shop"
      [] OTHER      -> l

Lower(netloc) == [k \in 1..Len(netloc) |-> LowerLabel(netloc[k])]

\* str.startswith('www.'): a first label www followed by a dot, i.e. by
\* another label
StartsWithWww(netloc) == Len(netloc) >= 2 /\ netloc[1] = "www"

\* a key that keeps the letter case of the netloc
get_domainKeepsCase(url) ==
    IF StartsWithWww(url) THEN SubSeq(url, 2, Len(url)) ELSE url

get_domain(url) ==
    LET domain == Lower(url)
    IN  IF StartsWithWww(domain) THEN SubSeq(domain, 2, Len(domain)) ELSE domain

\* the product URLs the callers hand in (by netloc)
Urls == { <<"WWW", "Shop">>, <<"shop">>, <<"other">>, <<"www", "www", "shop">> }

(***************************************************************************)
(* The in-memory cache: a Python dict, i.e. an insertion-ordered sequence  *)
(* of <<domain, entry>> pairs with distinct domains.                       *)
(***************************************************************************)
EmptyCache == << >>

InCache(cache, d) == \E k \in 1..Len(cache) : cache[k][1] = d

CacheGet(cache, d) ==
    LET k == CHOOSE j \in 1..Len(cache) : cache[j][1] = d IN cache[k][2]

\* cache[d] = e : overwrite in place, or insert at the end
CachePut(cache, d, e) ==
    IF InCache(cache, d)
    THEN [k \in 1..Len(cache) |-> IF cache[k][1] = d THEN <<d, e>> ELSE cache[k]]
    ELSE Append(cache, <<d, e>>)


(***************************************************************************)
(* detect_size_chart_type: the probes, in the order the page script        *)
(* evaluates them.  Probe 8 (inline) carries the selector that matched.    *)
(***************************************************************************)
InlineSelectors ==
    << "[class*=size-chart]", "[class*=sizechart]", "[class*=size_chart]",
       "[class*=sizeChart]", "[id*=size-chart]", "[id*=sizechart]",
       ".size-guide-table", "table[class*=size]" >>

InlineProbe == 8

ProbeTable ==
    << [type |-> "MODAL_ILMS",      confidence |-> 90, selector |-> ".ilmsc-modal"],
       [type |-> "MODAL_MFP",       confidence |-> 85, selector |-> ".mfp-content"],
       [type |-> "MODAL_PSWP",      confidence |-> 85, selector |-> ".pswp__scroll-wrap"],
       [type |-> "MODAL_BOOTSTRAP", confidence |-> 70, selector |-> ".modal.show"],
       [type |-> "ACCORDION",       confidence |-> 80, selector |-> "details[open]"],
       [type |-> "ACCORDION",       confidence |-> 60, selector |-> "details[open]"],
       [type |-> "TAB",             confidence |-> 75, selector |-> "[role=tabpanel]"],
       [type |-> "INLINE",          confidence |-> 85, selector |-> "inline"],
       [type |-> "MODAL_KIWI",      confidence |-> 95, selector |-> ".kiwi-sizing-modal"],
       [type |-> "MODAL_KIWI",      confidence |-> 95, selector |-> ".kiwi-sizing-modal"],
       [type |-> "DIRECT_IMAGE",    confidence |-> 65, selector |-> None] >>

ProbeIds == 1..Len(ProbeTable)

Min(S) == CHOOSE x \in S : \A y \in S : x <= y
Max(S) == CHOOSE x \in S : \A y \in S : x >= y

\* A page, as the classifier sees it: the probes whose DOM condition holds
\* (other than inline), and the inline selectors whose first match is laid out.
\* The inline loop stops at the first such selector.
ProbeMatches(page, p) ==
    IF p = InlineProbe THEN page.inline # {} ELSE p \in page.probes

Candidate(page, p) ==
    IF p = InlineProbe
    THEN [type |-> "INLINE", confidence |-> 85,
          selector |-> InlineSelectors[Min(page.inline)]]
    ELSE [type |-> ProbeTable[p].type, confidence |-> ProbeTable[p].confidence,
          selector |-> ProbeTable[p].selector]

\* types.push(...) in evaluation order
RECURSIVE PushTypes(_, _)
PushTypes(page, p) ==
    IF p > Len(ProbeTable) THEN << >>
    ELSE (IF ProbeMatches(page, p) THEN << Candidate(page, p) >> ELSE << >>)
         \o PushTypes(page, p + 1)

\* the comparator with its operands swapped: an ascending sort
ComparatorAscending(a, b) == a.confidence - b.confidence

\* (a, b) => b.confidence - a.confidence : a negative value keeps a before b
Comparator(a, b) == b.confidence - a.confidence

\* a sort that is not stable: x goes before the elements it ties with
RECURSIVE InsertBeforeEqual(_, _)
InsertBeforeEqual(sorted, x) ==
    IF sorted = << >> THEN << x >>
    ELSE IF Comparator(Head(sorted), x) >= 0
         THEN << x >> \o sorted
         ELSE << Head(sorted) >> \o InsertBeforeEqual(Tail(sorted), x)

\* Array.prototype.sort is stable: x goes after every element it does not
\* strictly precede
RECURSIVE InsertSorted(_, _)
InsertSorted(sorted, x) ==
    IF sorted = << >> THEN << x >>
    ELSE IF Comparator(Head(sorted), x) > 0
         THEN << x >> \o sorted
         ELSE << Head(sorted) >> \o InsertSorted(Tail(sorted), x)

RECURSIVE SortTypes(_)
SortTypes(types) ==
    IF types = << >> THEN << >>
    ELSE InsertSorted(SortTypes(SubSeq(types, 1, Len(types) - 1)), types[Len(types)])

UnknownType == [type |-> "UNKNOWN", confidence |-> 0]

\* the object the page script returns
DetectScript(page) ==
    LET types == SortTypes(PushTypes(page, 1))
    IN  [detectedTypes |-> types,
         primaryType   |-> IF Len(types) > 0 THEN types[1] ELSE UnknownType]

\* dict.get(key, default) on primaryType
PrimaryGet(primary, key, default) ==
    IF key \in DOMAIN primary THEN primary[key] ELSE default


(***************************************************************************)
(* brand_types.json.  The file is a sequence of tokens: the braces of the  *)
(* JSON object and one token per "domain": {...} member; NUL is the hole   *)
(* the file system leaves when a write lands beyond the end of the file.   *)
(***************************************************************************)
Tok(t) ==
    [tok |-> t, key |-> << >>, val |-> [type |-> "", confidence |-> 0, selector |-> ""]]
LBrace == Tok("{")
RBrace == Tok("}")

\* json.dump of one value: Python None is written as null
ToJsonVal(e) ==
    [type |-> e.type, confidence |-> e.confidence,
     selector |-> IF e.selector = None THEN "null" ELSE e.selector]

\* json.load of one value: null is read back as None
FromJsonVal(v) ==
    [type |-> v.type, confidence |-> v.confidence,
     selector |-> IF v.selector = "null" THEN None ELSE v.selector]

Member(d, e) == [tok |-> "member", key |-> d, val |-> ToJsonVal(e)]

\* json.dump(cache, f, indent=2): the text written, member by member
Dump(cache) ==
    << LBrace >> \o [k \in 1..Len(cache) |-> Member(cache[k][1], cache[k][2])]
                 \o << RBrace >>

\* whether json.load accepts the text: one object, nothing before or after it
WellFormed(data) ==
    /\ Len(data) >= 2
    /\ data[1] = LBrace
    /\ data[Len(data)] = RBrace
    /\ \A k \in 2..(Len(data) - 1) : data[k].tok = "member"

\* json.load builds the dict member by member; a repeated key keeps its first
\* place and takes the later value
RECURSIVE LoadMembers(_, _, _)
LoadMembers(data, k, acc) ==
    IF k > Len(data) - 1 THEN acc
    ELSE LoadMembers(data, k + 1, CachePut(acc, data[k].key, FromJsonVal(data[k].val)))

\* the Python type of what json.load returns for the text, "error" when it
\* raises (the text is no JSON value)
JsonType(data) ==
    IF WellFormed(data) THEN "dict"
    ELSE IF data = << Tok("["), Tok("]") >> THEN "list"
    ELSE IF data = << Tok("null") >> THEN "NoneType"
    ELSE "error"

NoFile == [exists |-> FALSE, data |-> << >>]

\* load_brand_cache returns whatever json.load returns, of whatever type:
\* LoadedType is the type of the object returned, load_brand_cache its items
LoadedType(f) ==
    IF f.exists /\ JsonType(f.data) \in {"list", "NoneType"}
    THEN JsonType(f.data) ELSE "dict"

\* load_brand_cache: {} when the file is missing or open/json.load raises; the
\* members of the object otherwise (an empty array and null have none)
load_brand_cache(f) ==
    IF f.exists
    THEN IF WellFormed(f.data) THEN LoadMembers(f.data, 2, EmptyCache) ELSE EmptyCache
    ELSE EmptyCache

\* open(BRAND_CACHE_FILE, 'w'): creates the file or truncates it to nothing
OpenForWrite(f) == [exists |-> TRUE, data |-> << >>]

\* write(2) of chunk at offset pos of a descriptor opened without O_APPEND:
\* overwrites what is there, extends the file, and leaves a hole when pos is
\* beyond the end
WriteAt(f, pos, chunk) ==
    LET newLen == IF pos + Len(chunk) > Len(f.data) THEN pos + Len(chunk) ELSE Len(f.data)
    IN  [exists |-> TRUE,
         data |-> [k \in 1..newLen |->
                     IF k > pos /\ k <= pos + Len(chunk) THEN chunk[k - pos]
                     ELSE IF k <= Len(f.data) THEN f.data[k]
                     ELSE Tok("NUL")]]

(***************************************************************************)
(* Strings.  The page scripts look at class names, ids, URLs, alt texts    *)
(* and table cells only through substring and regular-expression tests.    *)
(* Facts lists, for each string of the model, every test of the scripts    *)
(* that the string passes: a needle of String.includes by its text, a      *)
(* regular expression by the name of its variable.                         *)
(*   keywordsModal    /size\s*(chart|guide|...)|measurements|dimensions|   *)
(*                     sizing|t-shirt|womens|mens/i          (line 543)    *)
(*   keywordsGeneral  /size\s*(chart|guide|...)|measurements|dimensions|   *)
(*                     sizing\s*(chart|guide)|...|sizelink|sizechart/i     *)
(*                                                           (line 699)    *)
(*   classRegex       /size-chart|sizechart|size_chart/i     (line 719)    *)
(*   headerRegex      /size|chest|waist|length|width|measurement/i  (742)  *)
(*   sizeRegex        /size[_-]?(chart|guide)|measurement|sizing/i  (293)  *)
(***************************************************************************)
Facts(str) ==
    CASE \* class names and ids
         str = "sizechart-container" ->
            {"classRegex", "sizechart-container", "sizechart", "size", "chart"}
      [] str = "size-chart-btn" -> {"classRegex", "size-chart", "btn", "size", "chart"}
      [] str = "size-chart"     -> {"classRegex", "size-chart", "size", "chart"}
      [] str = "modal-content"  -> {"modal-content"}
      [] str = "mfp-content"    -> {"mfp-content"}
      [] str = "ilmsc-modal"    -> {"ilmsc-modal", "ilmsc", "ilm"}
      [] str = "icon-wrap"      -> {"icon"}
      [] str = "product-block"  -> {}
         \* URL paths
      [] str = "cdn/size-chart-womens.jpg" ->
            {"keywordsModal", "sizeRegex", "size-chart", "size", "chart"}
      [] str = "cdn/sizechart.png" ->
            {"keywordsModal", "keywordsGeneral", "sizeRegex", "sizechart", "size", "chart"}
      [] str = "cdn/size-guide.png" -> {"sizeRegex", "size", "guide"}
      [] str = "cdn/measurements.png" ->
            {"keywordsModal", "keywordsGeneral", "sizeRegex", "measurement"}
      [] str = "cdn/logo-size-guide.png" -> {"sizeRegex", "logo", "size", "guide"}
      [] str = "cdn/placeholder.png" -> {"placeholder"}
      [] str = "data:image/gif" -> {"data:image"}
      [] str = "apps/sizechart/embed" ->
            {"keywordsModal", "keywordsGeneral", "sizeRegex", "sizechart", "size", "chart"}
         \* alt texts (lower-cased by the scripts before the test)
      [] str = "Size guide" -> {"keywordsModal", "keywordsGeneral", "size", "guide"}
         \* table cells
      [] str = "Size"  -> {"headerRegex", "size"}
      [] str = "Chest" -> {"headerRegex"}
         \* cdn/front.jpg, cdn/back.jpg, cdn/side.jpg, cdn/thumb.jpg,
         \* cdn/ruler.svg, "M", "40", "": no test passes
      [] OTHER -> {}

Includes(str, needle) == needle \in Facts(str)
Test(regex, str) == regex \in Facts(str)

\* an optional value that is no string: absent (null), or present
Absent == << >>
Some(x) == << x >>

\* a URL: scheme ("https://", "//" when protocol-relative, "" when it has
\* none), path, query string.  The tests above only ever hit the path.
Url(scheme, path, query) == [scheme |-> scheme, path |-> path, query |-> query]

\* an <img>: img.src || img.dataset.src, alt, natural width and height
Img(src, alt, w, h) == [src |-> src, alt |-> alt, w |-> w, h |-> h]

\* !src || src.includes('data:image') || src.includes('placeholder')
IsBlank(src) ==
    \/ src = Url("", "", "")
    \/ Includes(src.path, "data:image")
    \/ Includes(src.path, "placeholder")

\* seen.has(src): seen grows exactly with the image loop's pushes
Seen(validImages, src) == \E k \in 1..Len(validImages) : validImages[k].src = src

\* (a, b) => b.score - a.score
ScoreComparator(a, b) == b.score - a.score

\* validImages.sort(comparator): stable
RECURSIVE InsertByScore(_, _)
InsertByScore(sorted, x) ==
    IF sorted = << >> THEN << x >>
    ELSE IF ScoreComparator(Head(sorted), x) > 0
         THEN << x >> \o sorted
         ELSE << Head(sorted) >> \o InsertByScore(Tail(sorted), x)

RECURSIVE SortByScore(_)
SortByScore(validImages) ==
    IF validImages = << >> THEN << >>
    ELSE InsertByScore(SortByScore(SubSeq(validImages, 1, Len(validImages) - 1)),
                       validImages[Len(validImages)])

\* slice with no bound: the whole array
SliceAll(arr, end) == arr

\* arr.slice(0, end)
Slice(arr, end) == SubSeq(arr, 1, IF Len(arr) < end THEN Len(arr) ELSE end)

\* topImages.map(i => i.src)
Srcs(images) == [k \in 1..Len(images) |-> images[k].src]

\* the tables of a container that pass only rows.length > 0
KeptTablesWithRows(tables) == SelectSeq(tables, LAMBDA rows : Len(rows) > 0)

\* allTables: the tables of a container, as rows of cell texts, that pass
\* rows.length > 0 && rows[0].length > 0
KeptTables(tables) ==
    SelectSeq(tables, LAMBDA rows : Len(rows) > 0 /\ Len(rows[1]) > 0)

\* allTables.length ? allTables[0] : null
FirstTable(allTables) == IF Len(allTables) > 0 THEN Some(allTables[1]) ELSE Absent

(***************************************************************************)
(* extract_content, the modal phase (second page.evaluate).                *)
(***************************************************************************)
ModalImageScore(img) ==
      (IF Test("keywordsModal", img.src.path) \/ Test("keywordsModal", img.alt)
       THEN 50 ELSE 0)
    + (IF \/ Includes(img.src.path, "sizeguide")
          \/ Includes(img.src.path, "size_guide")
          \/ Includes(img.src.path, "size-chart")
       THEN 40 ELSE 0)
    + (IF Includes(img.src.path, "chart") \/ Includes(img.src.path, "measurement")
       THEN 30 ELSE 0)

\* for (const img of imgs) { ... validImages.push({src, score: score || 10}) }
RECURSIVE ModalImages(_, _, _)
ModalImages(imgs, k, validImages) ==
    IF k > Len(imgs) THEN validImages
    ELSE LET img   == imgs[k]
             score == ModalImageScore(img)
         IN  IF \/ IsBlank(img.src)
                \/ Includes(img.src.path, "logo")
                \/ Includes(img.src.path, "icon")
             THEN ModalImages(imgs, k + 1, validImages)
             ELSE IF /\ ~Seen(validImages, img.src)
                     /\ (img.w > 50 \/ img.h > 50 \/ score > 0)
             THEN ModalImages(imgs, k + 1,
                      Append(validImages,
                             [src |-> img.src, score |-> IF score = 0 THEN 10 ELSE score]))
             ELSE ModalImages(imgs, k + 1, validImages)

\* a modal script that also returns the text of the container
ModalScriptWithText(page) ==
    IF page.modal = Absent
    THEN [table |-> Absent, images |-> << >>, foundModal |-> FALSE]
    ELSE LET modalContainer == page.modal[1]
             validImages == SortByScore(ModalImages(modalContainer.imgs, 1, << >>))
         IN  [table      |-> FirstTable(KeptTables(modalContainer.tables)),
              images     |-> Srcs(Slice(validImages, 3)),
              textHtml   |-> "size-chart-text",
              foundModal |-> TRUE]

\* the object the modal script returns.  page.modal is the container its
\* search ends with (by target id, by dialog selector, by the sized selector
\* list; narrowed to a JSC or Kiwi body), absent when the search finds none
ModalScript(page) ==
    IF page.modal = Absent
    THEN [table |-> Absent, images |-> << >>, foundModal |-> FALSE]
    ELSE LET modalContainer == page.modal[1]
             validImages == SortByScore(ModalImages(modalContainer.imgs, 1, << >>))
         IN  [table      |-> FirstTable(KeptTables(modalContainer.tables)),
              images     |-> Srcs(Slice(validImages, 3)),
              foundModal |-> TRUE]

(***************************************************************************)
(* extract_content, the general phase (third page.evaluate).               *)
(***************************************************************************)
\* the text of a container, by what the scripts read of it: its length,
\* whether keywords matches its first 300 characters, whether sizeKeywords
\* (size, cm, chest, ...) matches it
ContainerText(len, kw, sizeWords) == [len |-> len, kw |-> kw, sizeWords |-> sizeWords]

NoText == ContainerText(0, FALSE, FALSE)

\* an element the scripts take as a container
\*   priority, trigger: it carries data-sc-priority, data-sc-trigger
\*   small: its bounding rectangle is under 50 wide or under 50 high
\*   tables: its <table> descendants as rows of cell texts; imgs, iframes:
\*   its <img> and <iframe> descendants, in document order
Container(tag, cls, id, text, html, tables, imgs, iframes) ==
    [tag |-> tag, cls |-> cls, id |-> id, priority |-> FALSE, trigger |-> FALSE,
     text |-> text, html |-> html, tables |-> tables, imgs |-> imgs,
     iframes |-> iframes, small |-> FALSE, visible |-> TRUE]

\* table.rows[0]?.innerText against headerRegex
HeaderIsSized(rows) ==
    /\ Len(rows) > 0
    /\ \E c \in 1..Len(rows[1]) : Test("headerRegex", rows[1][c])

\* +80 for a table whose first row names a measurement, +25 for any other
RECURSIVE TablesScore(_)
TablesScore(tables) ==
    IF tables = << >> THEN 0
    ELSE (IF HeaderIsSized(Head(tables)) THEN 80 ELSE 25) + TablesScore(Tail(tables))

\* keywords.test(src) || keywords.test(alt) of the general script
IsSizeRelevant(img) ==
    Test("keywordsGeneral", img.src.path) \/ Test("keywordsGeneral", img.alt)

getScore(el) ==
    LET sizeRelevantImages == Len(SelectSeq(el.imgs, IsSizeRelevant))
    IN    (IF el.tag \in {"button", "a"} THEN -100 ELSE 0)
        + (IF Includes(el.cls, "ai-size-chart") \/ Includes(el.cls, "ai_size_chart")
           THEN 200 ELSE 0)
        + (IF /\ Test("classRegex", el.cls)
              /\ ~Includes(el.cls, "button")
              /\ ~Includes(el.cls, "btn")
           THEN 150 ELSE 0)
        + (IF Test("classRegex", el.id) THEN 150 ELSE 0)
        + (IF Includes(el.cls, "pswp") \/ Includes(el.cls, "photoswipe") THEN 80 ELSE 0)
        + (IF Includes(el.cls, "mfp-content") \/ Includes(el.cls, "mfp-wrap") THEN 70 ELSE 0)
        + (IF Includes(el.cls, "modal-content") \/ Includes(el.cls, "modal-body")
           THEN 60 ELSE 0)
        + (IF Includes(el.cls, "ilmsc-modal") \/ Includes(el.cls, "ilmsc-content")
           THEN 80 ELSE 0)
        + (IF el.priority THEN 50 ELSE 0)
        + (IF el.trigger THEN -20 ELSE 0)
        + (IF \/ Includes(el.cls, "sizechart-container")
              \/ Includes(el.cls, "size-chart-content")
           THEN 60 ELSE 0)
        + (IF /\ Includes(el.cls, "size")
              /\ (Includes(el.cls, "chart") \/ Includes(el.cls, "guide"))
           THEN 30 ELSE 0)
        + (IF Includes(el.cls, "ilm-sizechart") \/ Includes(el.cls, "ilmsc") THEN 50 ELSE 0)
        + TablesScore(el.tables)
        + 40 * sizeRelevantImages
        + (IF Len(el.imgs) > 5 /\ sizeRelevantImages = 0 THEN -50 ELSE 0)
        + (IF el.text.len < 5000 /\ el.text.kw THEN 15 ELSE 0)
        + (IF el.small THEN -30 ELSE 0)

isVisible(el) == el.visible

\* let bestContainer = null; let maxScore = -1;  (0 stands for null)
NoBest == [bestContainer |-> 0, maxScore |-> -1]

\* for (const cand of candidates) { ... if (score > maxScore) ... }
RECURSIVE BestContainer(_, _, _)
BestContainer(candidates, k, acc) ==
    IF k > Len(candidates) THEN acc
    ELSE IF isVisible(candidates[k]) /\ getScore(candidates[k]) > acc.maxScore
         THEN BestContainer(candidates, k + 1,
                  [bestContainer |-> k, maxScore |-> getScore(candidates[k])])
         ELSE BestContainer(candidates, k + 1, acc)

\* !bestContainer || maxScore < 10
NoBestContainer(best) == best.bestContainer = 0 \/ best.maxScore < 10

GeneralImageScore(img, bestContainer) ==
      (IF IsSizeRelevant(img) THEN 30 ELSE 0)
    + (IF \/ Includes(img.src.path, "size")
          \/ Includes(img.src.path, "chart")
          \/ Includes(img.src.path, "guide")
       THEN 20 ELSE 0)
    + (IF Includes(img.src.path, "measurement") \/ Includes(img.src.path, "dimension")
       THEN 20 ELSE 0)
    + (IF Includes(bestContainer.cls, "sizechart") \/ Includes(bestContainer.cls, "ilm")
       THEN 20 ELSE 0)
    + (IF Includes(bestContainer.cls, "mfp-content") THEN 15 ELSE 0)

\* for (const img of allImgs) { ... if (!seen.has(src)) { if (score > 0) push } }
RECURSIVE GeneralImages(_, _, _, _)
GeneralImages(imgs, k, bestContainer, validImages) ==
    IF k > Len(imgs) THEN validImages
    ELSE LET img   == imgs[k]
             score == GeneralImageScore(img, bestContainer)
         IN  IF ~IsBlank(img.src) /\ ~Seen(validImages, img.src) /\ score > 0
             THEN GeneralImages(imgs, k + 1, bestContainer,
                      Append(validImages, [src |-> img.src, score |-> score]))
             ELSE GeneralImages(imgs, k + 1, bestContainer, validImages)

\* for (const iframe of iframes) { if (keywords.test(iframe.src)) push, score 50 }
\* The push does not consult seen.
RECURSIVE IframeSources(_, _, _)
IframeSources(iframes, k, validImages) ==
    IF k > Len(iframes) THEN validImages
    ELSE IF Test("keywordsGeneral", iframes[k].path)
         THEN IframeSources(iframes, k + 1,
                  Append(validImages, [src |-> iframes[k], score |-> 50]))
         ELSE IframeSources(iframes, k + 1, validImages)

\* window.location.hostname.replace('www.', '')
StripWww(hostname) == IF hostname = "www.dopamean.in" THEN "dopamean.in" ELSE hostname

\* the text block: only without image and table, only on a text-only brand,
\* only for a text of 21..4999 characters that sizeKeywords matches
TextHtml(page, bestContainer, finalImages, allTables) ==
    IF /\ finalImages = << >>
       /\ allTables = << >>
       /\ StripWww(page.hostname) \in {"dopamean.in"}
       /\ bestContainer.text.sizeWords
       /\ bestContainer.text.len > 20
       /\ bestContainer.text.len < 5000
    THEN bestContainer.html
    ELSE None

\* validImages after the image loop, the iframe loop and the sort
SortedValidImages(bestContainer) ==
    SortByScore(IframeSources(bestContainer.iframes, 1,
                    GeneralImages(bestContainer.imgs, 1, bestContainer, << >>)))

\* what the general script extracts from the container it selected
GeneralFrom(page, bestContainer) ==
    LET allTables   == KeptTables(bestContainer.tables)
        finalImages == Srcs(Slice(SortedValidImages(bestContainer), 3))
    IN  [table    |-> FirstTable(allTables),
         images   |-> finalImages,
         textHtml |-> TextHtml(page, bestContainer, finalImages, allTables)]

\* the object the general script returns; the early return has no textHtml key
GeneralScript(page) ==
    LET best == BestContainer(page.candidates, 1, NoBest)
    IN  IF NoBestContainer(best)
        THEN [table |-> Absent, images |-> << >>]
        ELSE GeneralFrom(page, page.candidates[best.bestContainer])

(***************************************************************************)
(* extract_content: the switch between the two phases.                     *)
(***************************************************************************)
\* a switch that takes the modal result only for its table
UseModalForTable(modal_result) ==
    modal_result.foundModal /\ modal_result.table # Absent

\* modal_result.get('foundModal') and
\*     (modal_result.get('images') or modal_result.get('table'))
UseModal(modal_result) ==
    /\ modal_result.foundModal
    /\ (modal_result.images # << >> \/ modal_result.table # Absent)

\* extract_content(page): what it returns
ExtractContent(page) ==
    LET modal_result == ModalScript(page)
    IN  IF UseModal(modal_result) THEN modal_result ELSE GeneralScript(page)

(***************************************************************************)
(* run: the gallery fallback script.                                       *)
(***************************************************************************)
\* a cleanUrl that keeps the query string
cleanUrlKeepsQuery(u) ==
    [scheme |-> IF u.scheme = "//" THEN "https://" ELSE u.scheme,
     path |-> u.path, query |-> u.query]

\* cleanUrl: drop the query string, promote a protocol-relative URL to https
cleanUrl(u) ==
    [scheme |-> IF u.scheme = "//" THEN "https://" ELSE u.scheme,
     path |-> u.path, query |-> ""]

\* uniqueImages.add(x): a Set keeps the order of first insertion
SetAdd(uniqueImages, x) ==
    IF \E j \in 1..Len(uniqueImages) : uniqueImages[j] = x
    THEN uniqueImages ELSE Append(uniqueImages, x)

\* for (const img of galleryImgs): the src of the gallery images in document
\* order, added when sizeRegex matches
RECURSIVE GalleryScan(_, _, _)
GalleryScan(srcs, k, uniqueImages) ==
    IF k > Len(srcs) THEN uniqueImages
    ELSE IF Test("sizeRegex", srcs[k].path)
         THEN GalleryScan(srcs, k + 1, SetAdd(uniqueImages, cleanUrl(srcs[k])))
         ELSE GalleryScan(srcs, k + 1, uniqueImages)

\* sizeRegex.test(srcset): the regex runs over the whole attribute
SrcsetMatches(srcset) == \E c \in 1..Len(srcset) : Test("sizeRegex", srcset[c].path)

\* for (const img of allImgs): a srcset is its candidates' URLs in order; the
\* last one is added when sizeRegex matches the srcset
RECURSIVE SrcsetScan(_, _, _)
SrcsetScan(srcsets, k, uniqueImages) ==
    IF k > Len(srcsets) THEN uniqueImages
    ELSE IF SrcsetMatches(srcsets[k])
         THEN SrcsetScan(srcsets, k + 1,
                  SetAdd(uniqueImages, cleanUrl(srcsets[k][Len(srcsets[k])])))
         ELSE SrcsetScan(srcsets, k + 1, uniqueImages)

\* Array.from(uniqueImages)
GalleryScript(page) == SrcsetScan(page.srcsets, 1, GalleryScan(page.gallery, 1, << >>))

(***************************************************************************)
(* Sample documents: images, tables, modal containers, candidates of the   *)
(* general script, galleries.                                              *)
(***************************************************************************)
SizeTable     == << <<"Size", "Chest">>, <<"M", "40">> >>
\* <table></table>, and a table whose first <tr> has no cell
EmptyTable    == << >>
HeadlessTable == << << >>, <<"M", "40">> >>

\* the <img> elements of the sample documents
Imgs ==
    [ Front        |-> Img(Url("https://", "cdn/front.jpg", "v=1"), "", 1000, 1000),
      Back         |-> Img(Url("https://", "cdn/back.jpg", "v=1"), "", 1000, 1000),
      Side         |-> Img(Url("https://", "cdn/side.jpg", "v=1"), "", 1000, 1000),
      Thumb        |-> Img(Url("https://", "cdn/thumb.jpg", ""), "", 40, 40),
      Blank        |-> Img(Url("", "data:image/gif", ""), "", 1, 1),
      Logo         |-> Img(Url("https://", "cdn/logo-size-guide.png", ""), "", 200, 80),
      Ruler        |-> Img(Url("https://", "cdn/ruler.svg", ""), "Size guide", 24, 24),
      Sizechart    |-> Img(Url("https://", "cdn/sizechart.png", ""), "", 800, 600),
      Womens       |-> Img(Url("https://", "cdn/size-chart-womens.jpg", "v=1"), "", 800, 600),
      Measurements |-> Img(Url("https://", "cdn/measurements.png", ""), "", 800, 600),
      SizeGuide    |-> Img(Url("https://", "cdn/size-guide.png", ""), "", 800, 600) ]

IframeChart == Url("https://", "apps/sizechart/embed", "")

TextChart == ContainerText(40, TRUE, TRUE)

ModalSamples ==
    << \* 1: an open modal with nothing in it
       Container("div", "modal-content", "", NoText, "", << >>, << >>, << >>),
       \* 2: a table behind a table without header cells
       Container("div", "modal-content", "", TextChart, "",
                 << HeadlessTable, SizeTable >>, << >>, << >>),
       \* 3: seven images, four of them valid
       Container("div", "mfp-content", "", NoText, "", << >>,
                 << Imgs.Front, Imgs.Sizechart, Imgs.Womens, Imgs.Logo, Imgs.Thumb,
                    Imgs.Measurements, Imgs.Sizechart >>, << >>),
       \* 4: tables without a first cell, images too small or blank
       Container("div", "modal-content", "", NoText, "",
                 << EmptyTable, HeadlessTable >>, << Imgs.Thumb, Imgs.Blank >>, << >>) >>

CandSamples ==
    << \* 1: the product gallery block
       Container("div", "product-block", "", NoText, "", << >>,
                 << Imgs.Front, Imgs.Back, Imgs.Side, Imgs.Thumb, Imgs.Logo, Imgs.Blank >>, << >>),
       \* 2: a size-chart container with a table, images and an embedded chart
       Container("div", "sizechart-container", "", TextChart, "",
                 << SizeTable >>,
                 << Imgs.Front, Imgs.Sizechart, Imgs.Womens, Imgs.Measurements, Imgs.SizeGuide,
                    Imgs.Sizechart >>,
                 << IframeChart >>),
       \* 3: the icon next to a size-guide link, 24 by 24
       [Container("div", "icon-wrap", "", NoText, "", << >>, << Imgs.Ruler >>, << >>)
            EXCEPT !.small = TRUE],
       \* 4: a block that embeds the same chart twice (desktop and mobile)
       Container("div", "", "", TextChart, "", << >>, << >>,
                 << IframeChart, IframeChart >>),
       \* 5: tables without a first cell before the size table
       Container("section", "", "size-chart", NoText, "",
                 << EmptyTable, HeadlessTable, SizeTable >>, << >>, << >>),
       \* 6: size information as plain text
       Container("div", "", "", TextChart, "<p>Chest 40 cm</p>", << >>, << >>, << >>),
       \* 7: the trigger link itself
       Container("a", "size-chart-btn", "", TextChart, "", << >>, << Imgs.Ruler >>, << >>),
       \* 8: sample 2, not displayed
       [Container("div", "sizechart-container", "", TextChart, "",
                  << SizeTable >>, << Imgs.Sizechart >>, << >>)
            EXCEPT !.visible = FALSE] >>

(***************************************************************************)
(* The pages of the pipeline specifications.  A page is what the browser   *)
(* shows the scripts: the probes it trips, the candidate elements of the   *)
(* trigger selector in document order, what the two extraction scripts     *)
(* find in its DOM, and its gallery images.                                *)
(***************************************************************************)
\* the text of an element, by what the filters read of it
TextGuide    == [len |-> 10,  primary |-> TRUE,  excluded |-> FALSE, size |-> FALSE]
TextSize     == [len |-> 4,   primary |-> FALSE, excluded |-> FALSE, size |-> TRUE]
TextLong     == [len |-> 140, primary |-> TRUE,  excluded |-> FALSE, size |-> FALSE]
TextCart     == [len |-> 11,  primary |-> FALSE, excluded |-> FALSE, size |-> FALSE]

\* html: an HTMLElement (it has click() and a string className); an SVG <a>
\* has neither.  target: what aria-controls/data-target/href holds.
Elem(tag, text, html, visible, mfp, target) ==
    [tag |-> tag, text |-> text, titlePrimary |-> FALSE, classPrimary |-> FALSE,
     accordionClass |-> FALSE, inDetails |-> FALSE, html |-> html,
     visible |-> visible, mfpClass |-> mfp, target |-> target]

PageTable ==
    << \* 1: no size-chart markers; one sizing image in the product gallery; the
       \* word "Size" as a plain label, as an accordion title and as the span
       \* inside the <summary> of a <details>
       [probes |-> {}, inline |-> {},
        elems |-> << Elem("button", TextCart, TRUE, TRUE, FALSE, "none"),
                     Elem("div", TextSize, TRUE, TRUE, FALSE, "none"),
                     [Elem("div", TextSize, TRUE, TRUE, FALSE, "none")
                         EXCEPT !.accordionClass = TRUE],
                     [Elem("span", TextSize, TRUE, TRUE, FALSE, "none")
                         EXCEPT !.inDetails = TRUE] >>,
        modal |-> Absent, candidates |-> << CandSamples[1] >>,
        gallery |-> << Url("//", "cdn/size-chart-womens.jpg", "v=1"),
                       Url("https://", "cdn/front.jpg", "") >>,
        srcsets |-> << >>, hostname |-> "shop"],
       \* 2: Magnific-Popup, PhotoSwipe and an inline block; the trigger opens a modal
       [probes |-> {2, 3}, inline |-> {1, 2},
        elems |-> << Elem("a", TextGuide, TRUE, TRUE, TRUE, "id"),
                     Elem("div", TextLong, TRUE, TRUE, FALSE, "none"),
                     Elem("collapsible-row", TextLong, TRUE, TRUE, FALSE, "none") >>,
        modal |-> Some(ModalSamples[2]), candidates |-> << CandSamples[2] >>,
        gallery |-> << >>, srcsets |-> << >>, hostname |-> "shop"],
       \* 3: a "Size Guide" link that leaves the product page
       [probes |-> {11}, inline |-> {},
        elems |-> << Elem("summary", TextSize, TRUE, TRUE, FALSE, "none"),
                     Elem("a", TextGuide, TRUE, TRUE, FALSE, "url"),
                     Elem("span", [TextGuide EXCEPT !.len = 40, !.excluded = TRUE], TRUE, TRUE, FALSE, "none") >>,
        modal |-> Absent,
        candidates |-> << Container("section", "", "size-chart", NoText, "", << >>,
                                    << Imgs.SizeGuide >>, << >>) >>,
        gallery |-> << >>, srcsets |-> << >>, hostname |-> "shop"],
       \* 4: Kiwi markers; an SVG link matches the trigger keywords before a button
       \* does
       [probes |-> {9, 10}, inline |-> {},
        elems |-> << Elem("a", TextGuide, FALSE, TRUE, FALSE, "none"),
                     Elem("button", TextGuide, TRUE, TRUE, FALSE, "none") >>,
        modal |-> Absent, candidates |-> << CandSamples[6] >>,
        gallery |-> << >>, srcsets |-> << >>, hostname |-> "shop"],
       \* 5: a text-only brand: the size information is plain text, the gallery
       \* holds a chart
       [probes |-> {}, inline |-> {},
        elems |-> << Elem("button", TextCart, TRUE, TRUE, FALSE, "none") >>,
        modal |-> Absent, candidates |-> << CandSamples[6] >>,
        gallery |-> << Url("https://", "cdn/sizechart.png", "") >>,
        srcsets |-> << >>, hostname |-> "www.dopamean.in"] >>

\* the document a navigating trigger leads to: a separate size-guide page
ElsewherePage ==
    [probes |-> {}, inline |-> {}, elems |-> << >>,
     modal |-> Absent, candidates |-> << CandSamples[5] >>,
     gallery |-> << >>, srcsets |-> << >>, hostname |-> "shop"]

(***************************************************************************)
(* interact_with_triggers, the click pass (one page.evaluate).             *)
(***************************************************************************)
IsAccordion(el) ==
    \/ el.tag \in {"summary", "details"}
    \/ el.inDetails
    \/ el.accordionClass

\* a filter that goes by the keywords alone
MatchesKeywordsOnly(el) ==
    \/ el.text.primary
    \/ el.titlePrimary
    \/ el.classPrimary
    \/ (IsAccordion(el) /\ el.text.size)

\* the candidate filter: length cap, excluded phrase, keyword match
Matches(el) ==
    /\ (el.tag = "collapsible-row" \/ el.text.len <= 100)
    /\ ~el.text.excluded
    /\ \/ el.text.primary
       \/ el.titlePrimary
       \/ el.classPrimary
       \/ (IsAccordion(el) /\ el.text.size)

isClickable(el) == el.visible

\* what acting on one matched, clickable element does
\*   threw: an error the script does not catch (el.className.includes on an
\*          element whose className is no string), which rejects the evaluate
\*   nav:   the click follows a link out of the page
\*   mfp:   window._sc_mfp_clicked is set
ClickAction(el) ==
    IF el.tag \in {"collapsible-row", "summary", "details"}
    THEN [threw |-> FALSE, nav |-> FALSE, mfp |-> FALSE]
    ELSE [threw |-> ~el.html,
          nav   |-> el.html /\ el.target = "url",
          mfp   |-> el.html /\ el.mfpClass]

NoClicks == [triggered |-> {}, threw |-> FALSE, nav |-> FALSE, mfp |-> FALSE]

\* for (const el of elements) { ... } : the loop ends at the first uncaught error
RECURSIVE ClickPass(_, _, _)
ClickPass(elems, k, acc) ==
    IF k > Len(elems) \/ acc.threw THEN acc
    ELSE IF Matches(elems[k]) /\ isClickable(elems[k])
         THEN LET a == ClickAction(elems[k])
              IN  ClickPass(elems, k + 1,
                      [triggered |-> acc.triggered \cup {k},
                       threw     |-> a.threw,
                       nav       |-> acc.nav \/ a.nav,
                       mfp       |-> acc.mfp \/ a.mfp])
         ELSE ClickPass(elems, k + 1, acc)

\* the elements the pass has to act on
Triggers(elems) == { k \in 1..Len(elems) : Matches(elems[k]) /\ isClickable(elems[k]) }

(***************************************************************************)
(* run: the type-specific wait, the gallery fallback, the renderer.        *)
(***************************************************************************)
PopupSelector(detected_type) ==
    CASE detected_type = "MODAL_ILMS"      -> ".ilmsc-modal"
      [] detected_type = "MODAL_MFP"       -> ".mfp-content"
      [] detected_type = "MODAL_PSWP"      -> ".pswp--open"
      [] detected_type = "MODAL_BOOTSTRAP" -> ".modal.show"
      [] detected_type = "MODAL_KIWI"      -> ".kiwi-sizing-modal, .ks-chart-container, .ks-modal-content"
      [] detected_type = "ACCORDION"       -> "details[open]"
      [] detected_type = "TAB"             -> "[role=tabpanel]"
      [] OTHER                             -> None

EmptyResult == [table |-> Absent, images |-> << >>, textHtml |-> None]

\* a test that does not look at the text block
NothingFoundIgnoresText(result) ==
    /\ result.table = Absent
    /\ result.images = << >>

\* not result['table'] and not result['images'] and not result.get('textHtml')
NothingFound(result) ==
    /\ result.table = Absent
    /\ result.images = << >>
    /\ PrimaryGet(result, "textHtml", None) = None

\* gallery_images[:3]
FirstThree(s) == SubSeq(s, 1, IF Len(s) < 3 THEN Len(s) ELSE 3)

\* table_to_html: "" for no table, else the <table class="size-chart-table">
\* block (with its first row as header)
table_to_html(table_data) ==
    IF table_data = Absent \/ table_data[1] = << >> THEN "" ELSE "size-chart-table"

\* images_to_html: "" for no image, else the <div class="size-chart-images"> block
images_to_html(images) ==
    IF images = << >> THEN "" ELSE "size-chart-images"

\* if result.get("table"): the key is there, its value neither None nor []
HasTable(result) ==
    /\ "table" \in DOMAIN result
    /\ result.table # Absent
    /\ result.table[1] # << >>

\* if result.get("images")
HasImages(result) == "images" \in DOMAIN result /\ result.images # << >>

\* if result.get("textHtml")
HasText(result) == "textHtml" \in DOMAIN result /\ result.textHtml \notin {None, ""}

\* a renderer that wraps whatever parts there are, none included
result_to_htmlAlwaysWraps(result) ==
    Some(<< "size-chart" >>
         \o (IF HasTable(result) THEN << table_to_html(result.table) >> ELSE << >>)
         \o (IF HasImages(result) THEN << images_to_html(result.images) >> ELSE << >>)
         \o (IF HasText(result) THEN << "size-chart-text" >> ELSE << >>))

\* result_to_html: None when parts is empty, else the <div class="size-chart">
\* wrapper around the parts, in the order they were appended
result_to_html(result) ==
    LET parts == (IF HasTable(result) THEN << table_to_html(result.table) >> ELSE << >>)
              \o (IF HasImages(result) THEN << images_to_html(result.images) >> ELSE << >>)
              \o (IF HasText(result) THEN << "size-chart-text" >> ELSE << >>)
    IN  IF parts = << >> THEN Absent ELSE Some(<< "size-chart" >> \o parts)

\* run, lines 340-344: the images of the result become the first three
\* gallery images when the scan found any
GalleryFallback(page, result) ==
    LET gallery_images == GalleryScript(page)
    IN  IF gallery_images # << >>
        THEN [result EXCEPT !.images = FirstThree(gallery_images)]
        ELSE result

(***************************************************************************)
(* The pipeline instances.                                                 *)
(***************************************************************************)
Instances == 1..NumInstances

NoDetection == [type |-> "", confidence |-> 0]

\* an instance before SizeChartScraper(url) is constructed
IdleScraper ==
    [pc |-> "idle", entry |-> "", url |-> << >>, domain |-> << >>,
     brand_cache |-> EmptyCache, cache_type |-> "dict", detected_type |-> None,
     detection |-> NoDetection, page |-> 0, loc |-> "product",
     clicks |-> NoClicks, race |-> "none",
     navFlag |-> FALSE, navigated_away |-> FALSE, popup_selector |-> None,
     result |-> EmptyResult, returned |-> Absent,
     wbuf |-> << >>, wpos |-> 0,
     \* what happened, for the properties below
     cached |-> FALSE, detected |-> FALSE, extracted |-> FALSE,
     galleryRan |-> FALSE, navCaused |-> FALSE, backFailed |-> FALSE,
     raisedBy |-> None,
     prevFile |-> NoFile, alone |-> TRUE, badFile |-> FALSE]

\* the document the page object currently shows
CurrentPage(s) == IF s.loc = "product" THEN PageTable[s.page] ELSE ElsewherePage

\* an exception leaves the callee `who`.  run has no handler around its steps,
\* so it leaves run too; scrape_size_chart catches it and returns None.
Raise(s, who) ==
    IF s.entry = "run"
    THEN [s EXCEPT !.pc = "raised", !.raisedBy = who]
    ELSE [s EXCEPT !.pc = "done", !.raisedBy = who, !.returned = Absent]

\* SizeChartScraper.__init__, by the entry that drives the pipeline:
\* SizeChartScraper.run, or scrape_size_chart of the batch updater
Construct(i) ==
    /\ scraper[i].pc = "idle"
    /\ \E entry \in {"run", "scrape"}, url \in Urls :
         scraper' = [scraper EXCEPT ![i] =
                        [IdleScraper EXCEPT !.pc = "goto", !.entry = entry, !.url = url,
                                            !.domain = get_domain(url),
                                            !.brand_cache = load_brand_cache(file),
                                            !.cache_type = LoadedType(file),
                                            !.badFile = file.exists /\ ~WellFormed(file.data),
                                            !.cached = InCache(load_brand_cache(file),
                                                               get_domain(url))]]
    /\ UNCHANGED <<batch, xPage, xRun, rResult, rHtml, dPage, dResult, file, completed>>

\* page.goto inside try/except, then the hydration wait: whatever DOM loaded
Goto(i) ==
    /\ scraper[i].pc = "goto"
    /\ \E p \in 1..Len(PageTable) :
         scraper' = [scraper EXCEPT ![i].pc = "lookup", ![i].page = p]
    /\ UNCHANGED <<batch, xPage, xRun, rResult, rHtml, dPage, dResult, file, completed>>

\* a lookup that ignores the cache and always detects
LookupAlwaysDetects(i) ==
    /\ scraper[i].pc = "lookup"
    /\ scraper' = [scraper EXCEPT ![i].pc = "detect"]
    /\ UNCHANGED <<batch, xPage, xRun, rResult, rHtml, dPage, dResult, file, completed>>

\* if self.domain in self.brand_cache: the fast path.  The membership test
\* raises TypeError on None, and finds nothing in an empty list
Lookup(i) ==
    LET s == scraper[i] IN
    /\ s.pc = "lookup"
    /\ scraper' = [scraper EXCEPT ![i] =
         IF s.cache_type = "NoneType"
         THEN Raise(s, "lookup")
         ELSE IF InCache(s.brand_cache, s.domain)
         THEN [s EXCEPT !.pc = "interact",
                        !.detected_type = CacheGet(s.brand_cache, s.domain).type]
         ELSE [s EXCEPT !.pc = "detect"]]
    /\ UNCHANGED <<batch, xPage, xRun, rResult, rHtml, dPage, dResult, file, completed>>

\* detect_size_chart_type(page): the evaluate returns, or raises
DetectReturns(s) ==
    LET primary == DetectScript(CurrentPage(s)).primaryType
    IN  [s EXCEPT !.detected = TRUE, !.detection = primary,
                  !.detected_type = primary.type,
                  !.pc = IF s.entry = "run" THEN "store" ELSE "interact"]

Detect(i) ==
    /\ scraper[i].pc = "detect"
    /\ \/ scraper' = [scraper EXCEPT ![i] = DetectReturns(scraper[i])]
       \/ scraper' = [scraper EXCEPT ![i] =
                         Raise([scraper[i] EXCEPT !.detected = TRUE], "detect")]
    /\ UNCHANGED <<batch, xPage, xRun, rResult, rHtml, dPage, dResult, file, completed>>

\* the entry run writes for its domain
CacheEntry(s) ==
    [type       |-> s.detected_type,
     confidence |-> PrimaryGet(s.detection, "confidence", 0),
     selector   |-> PrimaryGet(s.detection, "selector", None)]

\* self.brand_cache[self.domain] = {...}; save_brand_cache up to its open(..., 'w').
\* The item assignment raises TypeError on a list (a str is no list index)
Store(i) ==
    LET s     == scraper[i]
        cache == CachePut(s.brand_cache, s.domain, CacheEntry(s))
    IN  /\ s.pc = "store"
        /\ IF s.cache_type = "dict"
           THEN /\ scraper' = [j \in Instances |->
                      IF j = i
                      THEN [s EXCEPT !.pc = "save_write", !.brand_cache = cache,
                                     !.wbuf = Dump(cache), !.wpos = 0,
                                     !.prevFile = file, !.alone = TRUE]
                      ELSE [scraper[j] EXCEPT !.alone = FALSE]]
                /\ file' = OpenForWrite(file)
           ELSE /\ scraper' = [scraper EXCEPT ![i] = Raise(s, "store")]
                /\ file' = file
        /\ UNCHANGED <<batch, xPage, xRun, rResult, rHtml, dPage, dResult, completed>>

\* json.dump into the open file: the buffer reaches the disk in one piece or
\* in several; the with-block closes the file after the last one
SaveWrite(i) ==
    LET s == scraper[i] IN
    /\ s.pc = "save_write"
    /\ \E n \in 1..(Len(s.wbuf) - s.wpos) :
         /\ file' = WriteAt(file, s.wpos, SubSeq(s.wbuf, s.wpos + 1, s.wpos + n))
         /\ scraper' = [j \in Instances |->
              IF j = i
              THEN [s EXCEPT !.wpos = s.wpos + n,
                             !.pc = IF s.wpos + n = Len(s.wbuf) THEN "interact" ELSE "save_write"]
              ELSE [scraper[j] EXCEPT !.alone = FALSE]]
         /\ completed' = IF s.wpos + n = Len(s.wbuf)
                         THEN completed \cup {s.brand_cache} ELSE completed
    /\ UNCHANGED <<batch, xPage, xRun, rResult, rHtml, dPage, dResult>>

\* the process is interrupted inside save_brand_cache
Interrupt(i) ==
    /\ scraper[i].pc = "save_write"
    /\ scraper' = [scraper EXCEPT ![i].pc = "killed"]
    /\ UNCHANGED <<batch, xPage, xRun, rResult, rHtml, dPage, dResult, file, completed>>

\* how a navigation started by a click races the rest of interact_with_triggers:
\* the page context is destroyed while the click pass still runs, or before the
\* _sc_mfp_clicked check, or the new document is already live (or not yet
\* committed) when the check runs, so that the check sees no error
\* interact_with_triggers, first page.evaluate (outside any try)
ClickPassStep(s, race) ==
    LET c == ClickPass(CurrentPage(s).elems, 1, NoClicks)
    IN  IF c.threw
        THEN Raise([s EXCEPT !.clicks = c], "interact")
        ELSE IF ~c.nav
        THEN [s EXCEPT !.clicks = c, !.pc = "mfp_check"]
        ELSE IF race = "during_pass"
        THEN Raise([s EXCEPT !.clicks = c, !.navCaused = TRUE, !.loc = "elsewhere"],
                   "interact")
        ELSE [s EXCEPT !.clicks = c, !.navCaused = TRUE, !.loc = "elsewhere",
                       !.race = race, !.pc = "mfp_check"]

InteractClicks(i) ==
    /\ scraper[i].pc = "interact"
    /\ \E race \in {"during_pass", "at_check", "unnoticed"} :
         scraper' = [scraper EXCEPT ![i] = ClickPassStep(scraper[i], race)]
    /\ UNCHANGED <<batch, xPage, xRun, rResult, rHtml, dPage, dResult, file, completed>>

\* what interact_with_triggers returns; run keeps it in navigated_away,
\* scrape_size_chart drops it
Returned(s, flag) ==
    [s EXCEPT !.pc = "wait", !.navFlag = flag,
              !.navigated_away = IF s.entry = "run" THEN flag ELSE FALSE]

\* a check whose failed go_back leaves interact_with_triggers as an exception
InteractCheckRaises(i) ==
    LET s == scraper[i] IN
    /\ s.pc = "mfp_check"
    /\ \/ /\ s.race = "at_check"
          /\ \E back \in BOOLEAN :
               scraper' = [scraper EXCEPT ![i] =
                   IF back
                   THEN Returned([s EXCEPT !.loc = "product"], TRUE)
                   ELSE Raise([s EXCEPT !.backFailed = TRUE], "interact")]
       \/ /\ s.race # "at_check"
          /\ scraper' = [scraper EXCEPT ![i] = Returned(s, FALSE)]
    /\ UNCHANGED <<batch, xPage, xRun, rResult, rHtml, dPage, dResult, file, completed>>

\* interact_with_triggers, the _sc_mfp_clicked check inside try/except
\*   "destroyed" in the error: go_back (which may fail), return True
\*   any other error: return False
\*   no error: wait for .mfp-content when the flag is set, return False
InteractCheck(i) ==
    LET s == scraper[i] IN
    /\ s.pc = "mfp_check"
    /\ \/ /\ s.race = "at_check"
          /\ \E back \in BOOLEAN :
               scraper' = [scraper EXCEPT ![i] =
                   Returned([s EXCEPT !.loc = IF back THEN "product" ELSE "elsewhere",
                                      !.backFailed = ~back], TRUE)]
       \/ /\ s.race # "at_check"
          /\ scraper' = [scraper EXCEPT ![i] = Returned(s, FALSE)]
    /\ UNCHANGED <<batch, xPage, xRun, rResult, rHtml, dPage, dResult, file, completed>>

\* the waits between interaction and extraction; every failure in them is caught
Wait(i) ==
    LET s == scraper[i] IN
    /\ s.pc = "wait"
    /\ scraper' = [scraper EXCEPT ![i] =
          [s EXCEPT !.pc = "extract",
                    !.popup_selector = IF s.entry = "run"
                                       THEN PopupSelector(s.detected_type) ELSE None]]
    /\ UNCHANGED <<batch, xPage, xRun, rResult, rHtml, dPage, dResult, file, completed>>

\* an extraction that goes back to the waits when the script fails
ExtractStepRetries(s, ok) ==
    IF s.entry = "run" /\ s.navigated_away
    THEN [s EXCEPT !.result = EmptyResult, !.pc = "fallback"]
    ELSE IF ok
    THEN [s EXCEPT !.extracted = TRUE, !.result = ExtractContent(CurrentPage(s)),
                   !.pc = IF s.entry = "run" THEN "fallback" ELSE "render"]
    ELSE [s EXCEPT !.extracted = TRUE, !.pc = "wait"]

\* run: if navigated_away: the empty result, else extract_content(page)
\* scrape_size_chart: extract_content(page), whatever interaction returned
ExtractStep(s, ok) ==
    IF s.entry = "run" /\ s.navigated_away
    THEN [s EXCEPT !.result = EmptyResult, !.pc = "fallback"]
    ELSE IF ok
    THEN [s EXCEPT !.extracted = TRUE, !.result = ExtractContent(CurrentPage(s)),
                   !.pc = IF s.entry = "run" THEN "fallback" ELSE "render"]
    ELSE Raise([s EXCEPT !.extracted = TRUE], "extract")

Extract(i) ==
    /\ scraper[i].pc = "extract"
    /\ \E ok \in BOOLEAN :
         scraper' = [scraper EXCEPT ![i] = ExtractStep(scraper[i], ok)]
    /\ UNCHANGED <<batch, xPage, xRun, rResult, rHtml, dPage, dResult, file, completed>>

\* run: the gallery scan when nothing was found so far
FallbackStep(s, ok) ==
    IF ~NothingFound(s.result)
    THEN [s EXCEPT !.pc = "print"]
    ELSE IF ok
    THEN [s EXCEPT !.galleryRan = TRUE, !.pc = "print",
                   !.result = GalleryFallback(CurrentPage(s), s.result)]
    ELSE Raise([s EXCEPT !.galleryRan = TRUE], "fallback")

Fallback(i) ==
    /\ scraper[i].pc = "fallback"
    /\ \E ok \in BOOLEAN :
         scraper' = [scraper EXCEPT ![i] = FallbackStep(scraper[i], ok)]
    /\ UNCHANGED <<batch, xPage, xRun, rResult, rHtml, dPage, dResult, file, completed>>

\* run: print_result, context.close
PrintResult(i) ==
    /\ scraper[i].pc = "print"
    /\ scraper' = [scraper EXCEPT ![i].pc = "done"]
    /\ UNCHANGED <<batch, xPage, xRun, rResult, rHtml, dPage, dResult, file, completed>>

\* scrape_size_chart: context.close, return result_to_html(result)
Render(i) ==
    /\ scraper[i].pc = "render"
    /\ scraper' = [scraper EXCEPT ![i].pc = "done",
                                  ![i].returned = result_to_html(scraper[i].result)]
    /\ UNCHANGED <<batch, xPage, xRun, rResult, rHtml, dPage, dResult, file, completed>>

\* the entry has returned or raised; the caller goes on to its next product
Exit(i) ==
    /\ scraper[i].pc \in {"done", "raised"}
    /\ scraper' = [scraper EXCEPT ![i] = IdleScraper]
    /\ UNCHANGED <<batch, xPage, xRun, rResult, rHtml, dPage, dResult, file, completed>>

\* the steps of an entry after the cache lookup or store, which touch neither
\* the cache nor its file, taken as one
RestOfRun(i) ==
    /\ scraper[i].pc = "interact"
    /\ scraper' = [scraper EXCEPT ![i].pc = "done"]
    /\ UNCHANGED <<batch, xPage, xRun, rResult, rHtml, dPage, dResult, file, completed>>

(***************************************************************************)
(* product_updater.py: the batch updater.  main walks the table            *)
(* scraped_products in batches ordered by id; per product it fetches the   *)
(* Shopify JSON (or falls back to the generic scraper), updates the row,   *)
(* counts the outcome and writes progress.json.                            *)
(***************************************************************************)
\* rows of scraped_products with a brand_url, ids 1..MaxProducts
MaxProducts == 12
\* batch_size (50 in the code)
BatchSize == 11
\* loop iterations of main that are followed
MaxHandled == 14
\* products that answer 404 and are deleted
MaxDeleted == 1

\* what brand_url + ".js" answers: the product as one flat object, prices in
\* paisa (None as Absent)
ShopifySamples ==
    { [title |-> "Tee", description |-> "<p>Cotton</p>", price |-> Some(129900),
       compare_at_price |-> Some(149900), available |-> TRUE,
       variants |-> << "M" >>, options |-> << "Size" >>,
       images |-> << Url("//", "cdn/tee.jpg", "") >>],
      [title |-> "Cap", description |-> "", price |-> Some(49900),
       compare_at_price |-> Absent, available |-> FALSE,
       variants |-> << >>, options |-> << >>, images |-> << >>] }

\* a page the generic scraper read in full (prices in rupees)
GenericProduct ==
    [title |-> "Tee", price |-> 1299, original_price |-> 1499,
     description |-> "<p>Cotton</p>",
     images |-> << Url("https://", "shop/tee.jpg", "") >>]

\* what fetch_generic_product_data returns: None, a product without title, a
\* product (prices in rupees)
GenericSamples ==
    { Absent,
      Some([title |-> "", price |-> 0, original_price |-> 0, description |-> "",
            images |-> << >>]),
      Some(GenericProduct) }

\* the products.json shape built from the generic scraper's data; str(price)
\* is the pair << "str", price >>
adapt_generic_data_to_shopify_format(generic_data) ==
    IF generic_data = Absent
    THEN Absent
    ELSE LET d              == generic_data[1]
             price          == PrimaryGet(d, "price", 0)
             original_price == PrimaryGet(d, "original_price", 0)
             images         == PrimaryGet(d, "images", << >>)
         IN  Some([product |->
                [title        |-> PrimaryGet(d, "title", None),
                 body_html    |-> PrimaryGet(d, "description", None),
                 vendor       |-> "Generic",
                 product_type |-> "Apparel",
                 variants     |-> << [price            |-> << "str", price >>,
                                      compare_at_price |-> IF original_price > price
                                                           THEN Some(<< "str", original_price >>)
                                                           ELSE Absent,
                                      sku |-> "", option1 |-> "Default Title",
                                      availability |-> TRUE,
                                      inventory_quantity |-> 10] >>,
                 images       |-> [k \in 1..Len(images) |-> [src |-> images[k]]],
                 tags         |-> "",
                 options      |-> << [name |-> "Title",
                                      values |-> << "Default Title" >>] >>]])

\* float(price_in_paisa) / 100.0 (the samples are whole rupees)
convert_price(price_in_paisa) ==
    IF price_in_paisa = Absent THEN Absent ELSE Some(price_in_paisa[1] \div 100)

\* update_product: the columns of the UPDATE statement and their values
update_product(shopify_data, size_chart_html) ==
    LET title            == PrimaryGet(shopify_data, "title", None)
        description      == PrimaryGet(shopify_data, "description", None)
        price_discounted == convert_price(PrimaryGet(shopify_data, "price", Absent))
        price_original   == convert_price(PrimaryGet(shopify_data, "compare_at_price", Absent))
        is_available     == PrimaryGet(shopify_data, "available", FALSE)
        variants         == PrimaryGet(shopify_data, "variants", << >>)
        options          == PrimaryGet(shopify_data, "options", << >>)
        images           == PrimaryGet(shopify_data, "images", << >>)
        \* isinstance(img, str): a URL, not a {"src": ...} object
        strings          == SelectSeq(images, LAMBDA img : "scheme" \in DOMAIN img)
        cleaned_images   == [k \in 1..Len(strings) |->
                               IF strings[k].scheme = "//"
                               THEN [strings[k] EXCEPT !.scheme = "https://"]
                               ELSE strings[k]]
        update_fields ==
            (IF title \notin {None, ""} THEN {"title"} ELSE {})
            \cup (IF description \notin {None, ""} THEN {"description"} ELSE {})
            \cup (IF price_discounted # Absent THEN {"price_discounted"} ELSE {})
            \cup (IF price_original # Absent THEN {"price_original"} ELSE {})
            \cup {"is_available"}
            \cup (IF variants # << >> THEN {"variants"} ELSE {})
            \cup (IF options # << >> THEN {"options"} ELSE {})
            \cup (IF cleaned_images # << >> THEN {"images"} ELSE {})
            \cup (IF size_chart_html # None THEN {"size_chart"} ELSE {})
    IN  [f \in update_fields |->
            CASE f = "title"            -> title
              [] f = "description"      -> description
              [] f = "price_discounted" -> price_discounted
              [] f = "price_original"   -> price_original
              [] f = "is_available"     -> is_available
              [] f = "variants"         -> variants
              [] f = "options"          -> options
              [] f = "images"           -> cleaned_images
              [] f = "size_chart"       -> IF size_chart_html = "" THEN "NULL"
                                           ELSE size_chart_html]

\* a query that ignores last_id
RECURSIVE get_products_to_updateFromStart(_, _, _)
get_products_to_updateFromStart(table, last_id, batch_size) ==
    IF table = {} \/ batch_size = 0 THEN << >>
    ELSE << Min(table) >>
         \o get_products_to_updateFromStart(table \ {Min(table)}, last_id, batch_size - 1)

\* SELECT id ... [AND id > last_id] ORDER BY id ASC LIMIT batch_size
\* (last_id 0 stands for None: the ids start at 1)
RECURSIVE get_products_to_update(_, _, _)
get_products_to_update(table, last_id, batch_size) ==
    LET rows == { id \in table : id > last_id }
    IN  IF rows = {} \/ batch_size = 0 THEN << >>
        ELSE << Min(rows) >>
             \o get_products_to_update(rows \ {Min(rows)}, last_id, batch_size - 1)

\* main before it starts: the table is full, progress.json does not exist
\*   processed, total_*: the counters of main and of progress
\*   saved: what progress.json holds
\*   handled, seen, twice, sinceSave, batches: the loop iterations so far, the
\*   ids they handled, whether one was handled again, the iterations since
\*   progress.json was last written, the batches fetched
\*   lastOutcome, lastSource, lastRow: how the latest iteration ended, where
\*   its product data came from, and the columns its UPDATE wrote
IdleBatch ==
    [pc |-> "start", table |-> 1..MaxProducts, products |-> << >>, idx |-> 1,
     last_id |-> 0, processed |-> 0,
     total_processed |-> 0, total_updated |-> 0, total_errors |-> 0,
     saved |-> [last_processed_id |-> 0, total_processed |-> 0,
                total_updated |-> 0, total_errors |-> 0],
     handled |-> 0, seen |-> {}, twice |-> FALSE, sinceSave |-> 0, batches |-> 0,
     lastOutcome |-> None, lastSource |-> None, lastRow |-> << >>]

save_progress(b) ==
    [b EXCEPT !.saved = [last_processed_id |-> b.last_id,
                         total_processed   |-> b.total_processed,
                         total_updated     |-> b.total_updated,
                         total_errors      |-> b.total_errors],
              !.sinceSave = 0]

\* one iteration of "for product in products"
\*   fetch: fetch_shopify_json returns ("ok") or raises HTTPStatusError 404 or
\*          500, RequestError, or another exception
\*   shopify, generic: what the two fetches return; genericRaises: the generic
\*          scraper raises instead
\*   chart: size_chart_html (None when the category is not apparel, "" when
\*          no chart was found)
\*   dbOk:  the UPDATE, or the DELETE of the 404 path, succeeds
HandleProduct(b, in) ==
    LET product_id == b.products[b.idx]
        fallback   == IF in.genericRaises \/ in.generic = Absent
                         \/ PrimaryGet(in.generic[1], "title", None) \in {None, ""}
                      THEN Absent
                      ELSE adapt_generic_data_to_shopify_format(in.generic)
        shopify_data == IF in.fetch = "ok" THEN Some(in.shopify) ELSE fallback
        raised     == IF shopify_data = Absent THEN in.fetch
                      ELSE IF in.dbOk THEN "none" ELSE "other"
        counted    == [b EXCEPT !.idx = @ + 1,
                                !.processed = @ + 1, !.total_processed = @ + 1,
                                !.handled = @ + 1, !.seen = @ \cup {product_id},
                                !.twice = @ \/ product_id \in b.seen,
                                !.sinceSave = @ + 1,
                                !.lastSource = None, !.lastRow = << >>]
        \* the end of the loop body: last_id, and the save every 10 products
        tail(c)    == LET d == [c EXCEPT !.last_id = product_id]
                      IN  IF d.processed % 10 = 0 THEN save_progress(d) ELSE d
    IN  IF raised = "none"
        THEN tail([counted EXCEPT !.total_updated = @ + 1,
                                  !.lastOutcome = "updated",
                                  !.lastSource = IF in.fetch = "ok" THEN "shopify"
                                                 ELSE "generic",
                                  !.lastRow = update_product(shopify_data[1], in.chart)])
        ELSE IF raised = "http404" /\ in.dbOk
        THEN \* the row is deleted; continue
             [counted EXCEPT !.table = @ \ {product_id},
                             !.processed = @ + 1, !.total_processed = @ + 1,
                             !.lastOutcome = "deleted"]
        ELSE tail([counted EXCEPT !.total_errors = @ + 1,
                                  !.lastOutcome = IF raised \in {"http404", "http500"}
                                                  THEN "http" ELSE raised])

\* main up to the loop: load_progress without a progress file, the database
\* connection (main returns when it fails), get_total_count
BatchStart ==
    /\ batch.pc = "start"
    /\ \E connected \in BOOLEAN :
         batch' = [batch EXCEPT !.pc = IF connected THEN "query" ELSE "done"]
    /\ UNCHANGED <<dPage, dResult, scraper, file, completed, xPage, xRun, rResult, rHtml>>

\* products = get_products_to_update(conn, last_id, batch_size); if not products: break
BatchQuery ==
    /\ batch.pc = "query"
    /\ LET products == get_products_to_update(batch.table, batch.last_id, BatchSize)
       IN  batch' = IF products = << >>
                    THEN [batch EXCEPT !.pc = "finally"]
                    ELSE [batch EXCEPT !.pc = "loop", !.products = products, !.idx = 1,
                                       !.batches = @ + 1]
    /\ UNCHANGED <<dPage, dResult, scraper, file, completed, xPage, xRun, rResult, rHtml>>

BatchHandle ==
    /\ batch.pc = "loop"
    /\ batch.idx <= Len(batch.products)
    /\ batch.handled < MaxHandled
    /\ \E fetch \in IF Cardinality(1..MaxProducts \ batch.table) < MaxDeleted
                    THEN {"ok", "http404", "http500", "request", "other"}
                    ELSE {"ok", "http500", "request", "other"},
          genericRaises \in BOOLEAN, dbOk \in BOOLEAN :
         \E shopify \in IF fetch = "ok" THEN ShopifySamples
                         ELSE {CHOOSE s \in ShopifySamples : TRUE},
            generic \in IF fetch = "ok" \/ genericRaises THEN {Absent}
                         ELSE GenericSamples :
            \E chart \in IF fetch = "ok" \/ (generic # Absent /\ generic[1].title # "")
                          THEN {None, "", "<div>"} ELSE {None} :
               batch' = HandleProduct(batch,
                            [fetch |-> fetch, shopify |-> shopify, generic |-> generic,
                             genericRaises |-> genericRaises, chart |-> chart,
                             dbOk |-> dbOk])
    /\ UNCHANGED <<dPage, dResult, scraper, file, completed, xPage, xRun, rResult, rHtml>>

\* after the for loop: save_progress(progress), the pause, the next query
BatchEnd ==
    /\ batch.pc = "loop"
    /\ batch.idx > Len(batch.products)
    /\ batch' = [save_progress(batch) EXCEPT !.pc = "query"]
    /\ UNCHANGED <<dPage, dResult, scraper, file, completed, xPage, xRun, rResult, rHtml>>

\* finally: conn.close(), save_progress(progress), the summary
BatchFinally ==
    /\ batch.pc = "finally"
    /\ batch' = [save_progress(batch) EXCEPT !.pc = "done"]
    /\ UNCHANGED <<dPage, dResult, scraper, file, completed, xPage, xRun, rResult, rHtml>>

(***************************************************************************)
(* Specifications.                                                         *)
(***************************************************************************)
\* a document without modal, candidates and gallery
NoDocument ==
    [modal |-> Absent, candidates |-> << >>, gallery |-> << >>, srcsets |-> << >>,
     hostname |-> "shop"]

\* result_to_html has not returned
NoHtml == << << "NoHtml" >> >>

\* no extraction under way
IdleRun ==
    [pc |-> "idle", modal_result |-> [table |-> Absent, images |-> << >>, foundModal |-> FALSE], result |-> EmptyResult,
     generalRan |-> FALSE, galleryRan |-> FALSE]

NoPage == [probes |-> {}, inline |-> {}]
NoResult == [detectedTypes |-> << >>, primaryType |-> NoDetection]

InitPipeline ==
    /\ scraper = [i \in Instances |-> IdleScraper]
    /\ file = NoFile
    /\ completed = {}
    /\ batch = IdleBatch

\* Spec: the repository's callers run one pipeline at a time (scraper.py's
\* main, the batch updater's product loop), one after the other
\* the variables of the function specifications, at rest
InitFunctions ==
    /\ xPage = NoDocument
    /\ xRun = IdleRun
    /\ rResult = EmptyResult
    /\ rHtml = NoHtml

Init ==
    /\ InitPipeline
    /\ InitFunctions
    /\ dPage = NoPage
    /\ dResult = NoResult

Next ==
    \/ Construct(1)
    \/ Goto(1)
    \/ Lookup(1)
    \/ Detect(1)
    \/ Store(1)
    \/ SaveWrite(1)
    \/ InteractClicks(1)
    \/ InteractCheck(1)
    \/ Wait(1)
    \/ Extract(1)
    \/ Fallback(1)
    \/ PrintResult(1)
    \/ Render(1)
    \/ Exit(1)

Spec == Init /\ [][Next]_vars

\* SpecCache: a caller that runs several pipelines at once over the one cache
\* file; any of them may be interrupted while it saves
NextCache ==
    \E i \in Instances :
        \/ Construct(i)
        \/ Goto(i)
        \/ Lookup(i)
        \/ Detect(i)
        \/ Store(i)
        \/ SaveWrite(i)
        \/ Interrupt(i)
        \/ RestOfRun(i)

SpecCache == Init /\ [][NextCache]_vars

\* SpecLoad: the sequential caller started on a cache file it did not write
\* itself: text that is no JSON, JSON that is no object, or a mapping
ForeignFiles ==
    { [exists |-> TRUE, data |-> << LBrace >>],
      [exists |-> TRUE, data |-> << Tok("["), Tok("]") >>],
      [exists |-> TRUE, data |-> << Tok("null") >>],
      [exists |-> TRUE, data |-> Dump(<< << <<"shop">>, ProbeTable[2] >> >>)] }

InitLoad ==
    /\ scraper = [i \in Instances |-> IdleScraper]
    /\ batch = IdleBatch
    /\ file \in ForeignFiles
    /\ completed = {}
    /\ InitFunctions
    /\ dPage = NoPage
    /\ dResult = NoResult

SpecLoad == InitLoad /\ [][Next]_vars

\* SpecDetect: the classifier on every page shape within the bounds
DetectInputs ==
    [probes : SUBSET (ProbeIds \ {InlineProbe}),
     inline : { S \in SUBSET (1..Len(InlineSelectors)) : Cardinality(S) <= MaxInlineMatches }]

InitDetect ==
    /\ InitPipeline
    /\ InitFunctions
    /\ dPage \in DetectInputs
    /\ dResult = NoResult

DetectEvaluate ==
    /\ dResult = NoResult
    /\ dResult' = DetectScript(dPage)
    /\ UNCHANGED <<batch, xPage, xRun, rResult, rHtml, dPage, scraper, file, completed>>

NextDetect == DetectEvaluate

SpecDetect == InitDetect /\ [][NextDetect]_vars

(***************************************************************************)
(* SpecExtract: extract_content, then the gallery fallback of run, on      *)
(* every document within the bounds.                                       *)
(***************************************************************************)
\* candidates of the general script per document
MaxCandidates == 2
\* gallery images per document, and images carrying a srcset
MaxGallery == 4
MaxSrcsets == 1

SeqsUpTo(S, n) == UNION { [1..m -> S] : m \in 0..n }

\* the documents extraction is run on: documents with a modal and candidates,
\* over a few galleries; and documents with neither, over every gallery
ExtractInputs ==
    LET modals     == { ModalSamples[k] : k \in 1..Len(ModalSamples) }
        candidates == { CandSamples[k] : k \in 1..Len(CandSamples) }
        hostnames  == {"shop", "www.dopamean.in"}
        \* the src values of gallery images: one chart under three spellings,
        \* three other charts, a product photo
        galleryUrls ==
            { Url("//", "cdn/size-chart-womens.jpg", "v=1"),
              Url("https://", "cdn/size-chart-womens.jpg", "width=400"),
              Url("https://", "cdn/sizechart.png", ""),
              Url("https://", "cdn/measurements.png", "v=2"),
              Url("//", "cdn/size-guide.png", ""),
              Url("https://", "cdn/front.jpg", "v=1") }
        \* srcset attributes, as their candidates' URLs
        srcsets ==
            { << Url("//", "cdn/size-chart-womens.jpg", "v=1&width=200"),
                 Url("//", "cdn/size-chart-womens.jpg", "v=1&width=800") >>,
              << Url("https://", "cdn/front.jpg", "width=200"),
                 Url("https://", "cdn/front.jpg", "width=800") >>,
              << Url("https://", "cdn/sizechart.png", "width=200"),
                 Url("https://", "cdn/measurements.png", "width=800") >> }
        \* galleries of the documents that have a modal or candidates
        galleries ==
            { << >>,
              << Url("//", "cdn/size-chart-womens.jpg", "v=1") >>,
              << Url("https://", "cdn/sizechart.png", ""),
                 Url("https://", "cdn/front.jpg", "v=1"),
                 Url("//", "cdn/sizechart.png", "v=3"),
                 Url("https://", "cdn/measurements.png", "v=2"),
                 Url("//", "cdn/size-guide.png", ""),
                 Url("//", "cdn/size-chart-womens.jpg", "v=1") >> }
    IN  { [modal |-> m, candidates |-> c, gallery |-> g, srcsets |-> << >>, hostname |-> h] :
            m \in {Absent} \cup { Some(x) : x \in modals },
            c \in SeqsUpTo(candidates, MaxCandidates),
            g \in galleries,
            h \in hostnames }
        \cup
        { [NoDocument EXCEPT !.gallery = g, !.srcsets = s] :
            g \in SeqsUpTo(galleryUrls, MaxGallery),
            s \in SeqsUpTo(srcsets, MaxSrcsets) }

InitExtract ==
    /\ InitPipeline
    /\ dPage = NoPage
    /\ dResult = NoResult
    /\ xPage \in ExtractInputs
    /\ xRun = [IdleRun EXCEPT !.pc = "modal"]
    /\ rResult = EmptyResult
    /\ rHtml = NoHtml

\* extract_content: modal_result = await page.evaluate(...)
ExtractModal ==
    /\ xRun.pc = "modal"
    /\ xRun' = [xRun EXCEPT !.pc = "switch", !.modal_result = ModalScript(xPage)]
    /\ UNCHANGED <<batch, dPage, dResult, scraper, file, completed, xPage, rResult, rHtml>>

\* extract_content: return modal_result
ExtractReturnModal ==
    /\ xRun.pc = "switch"
    /\ UseModal(xRun.modal_result)
    /\ xRun' = [xRun EXCEPT !.pc = "fallback", !.result = xRun.modal_result]
    /\ UNCHANGED <<batch, dPage, dResult, scraper, file, completed, xPage, rResult, rHtml>>

\* extract_content: result = await page.evaluate(...); return result
ExtractGeneral ==
    /\ xRun.pc = "switch"
    /\ ~UseModal(xRun.modal_result)
    /\ xRun' = [xRun EXCEPT !.pc = "fallback", !.generalRan = TRUE,
                            !.result = GeneralScript(xPage)]
    /\ UNCHANGED <<batch, dPage, dResult, scraper, file, completed, xPage, rResult, rHtml>>

\* run: the gallery fallback after extract_content
ExtractFallback ==
    /\ xRun.pc = "fallback"
    /\ xRun' = IF NothingFound(xRun.result)
               THEN [xRun EXCEPT !.pc = "done", !.galleryRan = TRUE,
                                 !.result = GalleryFallback(xPage, xRun.result)]
               ELSE [xRun EXCEPT !.pc = "done"]
    /\ UNCHANGED <<batch, dPage, dResult, scraper, file, completed, xPage, rResult, rHtml>>

NextExtract ==
    \/ ExtractModal
    \/ ExtractReturnModal
    \/ ExtractGeneral
    \/ ExtractFallback

SpecExtract == InitExtract /\ [][NextExtract]_vars

(***************************************************************************)
(* SpecRender: result_to_html on every result within the bounds.           *)
(***************************************************************************)
\* images in a result handed to the renderer
MaxRenderImages == 3

\* results with each part absent, empty or present; with and without the
\* textHtml key
RenderInputs ==
    LET tables == {Absent, Some(<< >>), Some(SizeTable), Some(<< <<"Size">> >>)}
        images == SeqsUpTo({ Url("https://", "cdn/sizechart.png", ""),
                             Url("//", "cdn/size-guide.png", "") }, MaxRenderImages)
    IN  [table : tables, images : images, textHtml : {None, "", "<p>Chest 40 cm</p>"}]
        \cup [table : tables, images : images, foundModal : {TRUE}]

InitRender ==
    /\ InitPipeline
    /\ dPage = NoPage
    /\ dResult = NoResult
    /\ xPage = NoDocument
    /\ xRun = IdleRun
    /\ rResult \in RenderInputs
    /\ rHtml = NoHtml

RenderEvaluate ==
    /\ rHtml = NoHtml
    /\ rHtml' = result_to_html(rResult)
    /\ UNCHANGED <<batch, dPage, dResult, scraper, file, completed, xPage, xRun, rResult>>

NextRender == RenderEvaluate

SpecRender == InitRender /\ [][NextRender]_vars

(***************************************************************************)
(* SpecBatch: one run of the batch updater over a full table, every        *)
(* product with every outcome.  SpecBatchLive adds that main keeps taking  *)
(* its next step.                                                          *)
(***************************************************************************)
NextBatch ==
    \/ BatchStart
    \/ BatchQuery
    \/ BatchHandle
    \/ BatchEnd
    \/ BatchFinally

SpecBatch == Init /\ [][NextBatch]_vars

SpecBatchLive == Init /\ [][NextBatch]_vars /\ WF_vars(NextBatch)

(***************************************************************************)
(* Properties.                                                             *)
(***************************************************************************)
PastLookup(s) == s.pc \notin {"idle", "goto", "lookup"}
PastInteract(s) ==
    s.pc \in {"wait", "extract", "fallback", "print", "render", "done"} /\ s.raisedBy = None
Finished(s) == s.pc = "done" /\ s.raisedBy = None

\* C1: a run for a URL whose normalized domain is in the cache never invokes
\* detect_size_chart_type, and the type it uses from the lookup on (for the
\* type-specific wait too) is the cached entry's type
C1_CachedTypeReused ==
    \A i \in Instances :
        LET s == scraper[i] IN
        s.cached =>
            /\ ~s.detected
            /\ InCache(s.brand_cache, s.domain)
            /\ PastLookup(s) =>
                   s.detected_type = CacheGet(s.brand_cache, s.domain).type
            /\ (s.entry = "run" /\ s.pc \in {"extract", "fallback", "print", "done"}) =>
                   s.popup_selector = PopupSelector(CacheGet(s.brand_cache, s.domain).type)

\* a run finished on a cache hit left by an earlier run for another URL of the
\* same domain
C1_Witness ==
    \E i \in Instances :
        /\ scraper[i].cached
        /\ Finished(scraper[i])
        /\ scraper[i].entry = "run"
        /\ scraper[i].url = <<"WWW", "Shop">>
        /\ scraper[i].detected_type = "MODAL_MFP"

\* C2: once the trigger interaction has made the page navigate away, the run
\* performs no DOM extraction, and a run that ends has gone through the gallery
\* fallback
C2_NoExtractionAfterNavigation ==
    \A i \in Instances :
        LET s == scraper[i] IN
        s.navCaused =>
            /\ ~s.extracted
            /\ Finished(s) => s.galleryRan

\* C3: the pipeline entry never propagates an exception of detection,
\* interaction or extraction to its caller
C3_EntryNeverRaises ==
    \A i \in Instances : scraper[i].pc # "raised"

\* C4: interact_with_triggers never raises to its caller, and once it has
\* returned every matching clickable candidate has been acted on
C4_InteractNeverRaises ==
    \A i \in Instances :
        LET s == scraper[i] IN
        /\ s.raisedBy # "interact"
        /\ PastInteract(s) =>
               s.clicks.triggered = Triggers(PageTable[s.page].elems)

\* C5: a save_brand_cache interrupted at any point, with no other instance
\* writing meanwhile, leaves a file that reads as the complete previous mapping
\* or as the complete new mapping
C5_StoreAllOrNothing ==
    \A i \in Instances :
        LET s == scraper[i] IN
        (s.pc = "killed" /\ s.alone) =>
            \/ load_brand_cache(file) = load_brand_cache(s.prevFile)
            \/ load_brand_cache(file) = s.brand_cache

\* C6: from the first completed store on, a reader of the cache file obtains
\* at every point a well-formed mapping that some store wrote in full
C6_ReaderSeesCompleteMapping ==
    completed # {} =>
        /\ file.exists
        /\ WellFormed(file.data)
        /\ load_brand_cache(file) \in completed

\* the probes of the page under detection that match, and the top confidence
Matched == { p \in ProbeIds : ProbeMatches(dPage, p) }
TopConfidence == Max({ ProbeTable[p].confidence : p \in Matched })
TopMatched == { p \in Matched : ProbeTable[p].confidence = TopConfidence }

\* C7: detection returns one primary type, a candidate of a matched probe whose
\* confidence is the maximum among the matched probes; UNKNOWN with confidence
\* 0 when no probe matches
C7_PrimaryHasMaxConfidence ==
    dResult # NoResult =>
        IF Matched = {}
        THEN dResult.primaryType = UnknownType
        ELSE /\ \E p \in Matched : dResult.primaryType = Candidate(dPage, p)
             /\ dResult.primaryType.confidence = TopConfidence
             /\ \A k \in 1..Len(dResult.detectedTypes) :
                    dResult.detectedTypes[k].confidence <= dResult.primaryType.confidence

\* detection ran on a page that trips probes of three different confidences,
\* the highest of them not the first evaluated
C7_Witness ==
    /\ dResult # NoResult
    /\ {4, 7, 9} \subseteq Matched
    /\ dResult.primaryType.type = "MODAL_KIWI"

\* the order of the probes in the specification's confidence table, by probe
SpecTableOrder == << 9, 10, 1, 8, 3, 2, 5, 7, 4, 11, 6 >>

TableRank(p) == CHOOSE k \in 1..Len(SpecTableOrder) : SpecTableOrder[k] = p

EarliestInTable(S) == CHOOSE p \in S : \A q \in S : TableRank(p) <= TableRank(q)

C9_DetectionIsCached ==
    \A i \in Instances :
        LET s == scraper[i]
            e == [type       |-> s.detection.type,
                  confidence |-> s.detection.confidence,
                  selector   |-> PrimaryGet(s.detection, "selector", None)]
        IN  (s.detected /\ Finished(s)) =>
                /\ InCache(s.brand_cache, s.domain)
                /\ CacheGet(s.brand_cache, s.domain) = e
                /\ InCache(load_brand_cache(file), s.domain)
                /\ CacheGet(load_brand_cache(file), s.domain) = e

\* C10: a run whose detection matched no probe leaves the cache, in memory and
\* on file, without an entry for its domain; and no step of a run removes an
\* entry from the cache in memory
C10_OnlySuccessfulDetectionCached ==
    \A i \in Instances :
        LET s == scraper[i] IN
        /\ (s.detected /\ s.detection = UnknownType /\ Finished(s)) =>
               /\ ~InCache(s.brand_cache, s.domain)
               /\ ~InCache(load_brand_cache(file), s.domain)
        /\ (s.cached /\ s.pc # "idle") => InCache(s.brand_cache, s.domain)

\* C11: a scraper constructed on a cache file that exists but does not read as
\* a domain mapping behaves as on an empty cache: neither the lookup nor the
\* store fails, and a run that ends has detected and stored its entry
C11_UnreadableCacheIsEmptyCache ==
    \A i \in Instances :
        LET s == scraper[i] IN
        s.badFile =>
            /\ s.raisedBy \notin {"lookup", "store"}
            /\ (s.entry = "run" /\ Finished(s)) =>
                   /\ s.detected
                   /\ InCache(s.brand_cache, s.domain)
                   /\ InCache(load_brand_cache(file), s.domain)

\* C12: the images of a result are never more than 3, whether the modal script,
\* the general script (iframe sources included) or the gallery fallback
\* produced them
C12_AtMostThreeImages ==
    /\ Len(xRun.modal_result.images) <= 3
    /\ Len(xRun.result.images) <= 3

\* the general script returned 3 images from a container that holds 5
\* distinct valid images and a size-chart iframe, the iframe among the 3
C12_Witness ==
    /\ xRun.pc = "done"
    /\ xRun.generalRan
    /\ ~xRun.galleryRan
    /\ xPage.candidates = << CandSamples[2] >>
    /\ Len(SortedValidImages(CandSamples[2])) = 6
    /\ Len(xRun.result.images) = 3
    /\ \E k \in 1..3 : xRun.result.images[k] = IframeChart

\* table of a result is null, or rows of which there is a first with a cell
TableIsAbsentOrHeaded(result) ==
    \/ result.table = Absent
    \/ /\ Len(result.table[1]) > 0
       /\ Len(result.table[1][1]) > 0

\* C13: in the result of either extraction phase, table is absent or a
\* non-empty sequence of rows whose first row has at least one cell
C13_TableAbsentOrHeaded ==
    /\ TableIsAbsentOrHeaded(xRun.modal_result)
    /\ TableIsAbsentOrHeaded(xRun.result)

\* the modal held a table without header cells before the size table, and the
\* result's table is the size table
C13_Witness ==
    /\ xRun.pc = "done"
    /\ xPage.modal = Some(ModalSamples[2])
    /\ ModalSamples[2].tables[1] = HeadlessTable
    /\ xRun.result.table = Some(SizeTable)

\* C14: result_to_html returns None exactly when table, images and textHtml
\* are all absent or empty; otherwise one size-chart wrapper holding the blocks
\* of the parts present, in the order table, images, text
C14_RenderedParts ==
    rHtml # NoHtml =>
        LET table  == rResult.table # Absent /\ rResult.table[1] # << >>
            images == rResult.images # << >>
            text   == /\ "textHtml" \in DOMAIN rResult
                      /\ rResult.textHtml # None
                      /\ rResult.textHtml # ""
        IN  IF ~table /\ ~images /\ ~text
            THEN rHtml = Absent
            ELSE rHtml = Some(<< "size-chart" >>
                     \o (IF table THEN << "size-chart-table" >> ELSE << >>)
                     \o (IF images THEN << "size-chart-images" >> ELSE << >>)
                     \o (IF text THEN << "size-chart-text" >> ELSE << >>))

\* a result with a table and a text but no image was rendered
C14_Witness ==
    /\ rResult.table = Some(SizeTable)
    /\ rResult.images = << >>
    /\ rHtml = Some(<< "size-chart", "size-chart-table", "size-chart-text" >>)

\* an element of accordion shape
AccordionShaped(el) == el.tag = "collapsible-row" \/ IsAccordion(el)

\* C15: the click pass acts on no element whose computed text is longer than
\* 100 characters, accordions excepted, and on none whose computed text holds
\* the phrase "actually accurate", whatever keyword it matches
C15_NoLongOrExcludedTrigger ==
    \A i \in Instances :
        LET s == scraper[i] IN
        \A k \in s.clicks.triggered :
            LET el == PageTable[s.page].elems[k] IN
            /\ ~AccordionShaped(el) => el.text.len <= 100
            /\ ~el.text.excluded

\* the pass went over a page with a "size guide" link, a block of 140
\* characters naming the size guide and a collapsible-row, and over a page
\* with a span "... actually accurate ... size guide"
C15_Witness ==
    \E i \in Instances :
        LET s == scraper[i] IN
        /\ s.pc = "mfp_check"
        /\ \/ /\ s.page = 2
              /\ PageTable[2].elems[2].text.len > 100
              /\ PageTable[2].elems[2].text.primary
              /\ s.clicks.triggered = {1, 3}
           \/ /\ s.page = 3
              /\ PageTable[3].elems[3].text.excluded
              /\ PageTable[3].elems[3].text.primary
              /\ s.clicks.triggered = {1, 2}

\* a result with a table, an image or a text block
HasContent(result) ==
    \/ result.table # Absent
    \/ result.images # << >>
    \/ ("textHtml" \in DOMAIN result /\ result.textHtml # None)

\* C16: the step of run after extraction scans the gallery only when the result
\* has no table, no image and no text block; a result with content passes it
\* unchanged
C16_FallbackOnlyWhenEmpty ==
    [][\A i \in Instances :
          (scraper[i].pc = "fallback" /\ HasContent(scraper[i].result)) =>
              /\ scraper'[i].result = scraper[i].result
              /\ ~scraper'[i].galleryRan]_vars

\* run extracted a text block from a page whose gallery holds a size chart,
\* and went past the fallback without scanning the gallery
C16_Witness ==
    \E i \in Instances :
        LET s == scraper[i] IN
        /\ s.entry = "run"
        /\ s.pc = "print"
        /\ s.raisedBy = None
        /\ s.extracted
        /\ ~s.galleryRan
        /\ "textHtml" \in DOMAIN s.result
        /\ s.result.textHtml # None
        /\ s.result.images = << >>
        /\ GalleryScript(CurrentPage(s)) # << >>

\* C17: extract_content returns the modal script's result, and the general
\* script does not run, exactly when a modal container was found and yielded
\* a table or an image; otherwise the general script runs and its result is
\* returned
C17_PhaseSwitch ==
    LET modalYields == /\ xPage.modal # Absent
                       /\ \/ xRun.modal_result.table # Absent
                          \/ xRun.modal_result.images # << >>
    IN  /\ xRun.pc \in {"fallback", "done"} => (xRun.generalRan <=> ~modalYields)
        /\ xRun.pc = "fallback" =>
               xRun.result = IF modalYields THEN xRun.modal_result
                             ELSE GeneralScript(xPage)
        /\ xRun.pc \notin {"idle", "modal"} =>
               (xRun.modal_result.foundModal <=> xPage.modal # Absent)

\* a modal was found that holds images only, the candidates hold a table, and
\* the result is the modal's
C17_Witness ==
    /\ xRun.pc = "fallback"
    /\ xPage.modal = Some(ModalSamples[3])
    /\ xPage.candidates = << CandSamples[2] >>
    /\ ~xRun.generalRan
    /\ xRun.result.table = Absent
    /\ Len(xRun.result.images) = 3

\* the visible candidates of the page under extraction
VisibleCandidates == { k \in 1..Len(xPage.candidates) : isVisible(xPage.candidates[k]) }

\* the first, in document order, of the visible candidates of maximum score
\* among those in S
FirstOfTop(S) ==
    LET top == Max({ getScore(xPage.candidates[k]) : k \in S })
    IN  Min({ k \in S : getScore(xPage.candidates[k]) = top })

\* C18: the general script extracts from the first visible candidate of
\* maximum score, provided that score is above 10; when no visible candidate
\* scores above 10 it returns no table and no image
C18_SelectsAboveTen ==
    (xRun.generalRan /\ xRun.pc = "fallback") =>
        LET above == { k \in VisibleCandidates : getScore(xPage.candidates[k]) > 10 }
        IN  IF above = {}
            THEN xRun.result.table = Absent /\ xRun.result.images = << >>
            ELSE xRun.result = GeneralFrom(xPage, xPage.candidates[FirstOfTop(above)])

\* the images the general script kept from the container it selected, sorted
SelectedValidImages ==
    LET best == BestContainer(xPage.candidates, 1, NoBest)
    IN  IF NoBestContainer(best) THEN << >>
        ELSE SortedValidImages(xPage.candidates[best.bestContainer])

\* C19: of the image URLs the general script returns, each has a positive
\* score, none appears twice (iframe sources included), and the scores do not
\* increase along the sequence
C19_GeneralImagesPositiveDistinctSorted ==
    (xRun.generalRan /\ xRun.pc = "fallback") =>
        LET images == xRun.result.images
            valid  == SelectedValidImages
        IN  /\ \A k \in 1..Len(images) :
                   valid[k].src = images[k] /\ valid[k].score > 0
            /\ \A j, k \in 1..Len(images) : j < k => valid[j].score >= valid[k].score
            /\ \A j, k \in 1..Len(images) : j # k => images[j] # images[k]

\* a URL without query string and with https in place of a leading //
Normalized(u) ==
    [scheme |-> IF u.scheme = "//" THEN "https://" ELSE u.scheme,
     path |-> u.path, query |-> ""]

\* the URLs the gallery script looks at and takes, in the order it meets them:
\* the src of the matching gallery images, then the last candidate of the
\* matching srcsets
GalleryMatches(page) ==
    LET matching == SelectSeq(page.srcsets, SrcsetMatches)
    IN  SelectSeq(page.gallery, LAMBDA u : Test("sizeRegex", u.path))
        \o [k \in 1..Len(matching) |-> matching[k][Len(matching[k])]]

\* the positions of a sequence of URLs whose normalized URL did not occur before
FirstSeen(urls) ==
    { i \in 1..Len(urls) : \A j \in 1..(i - 1) : Normalized(urls[j]) # Normalized(urls[i]) }

\* the k-th smallest element of a set of numbers
Kth(S, k) == CHOOSE i \in S : Cardinality({ j \in S : j < i }) = k - 1

\* C20: the URLs the gallery fallback returns have no query string and no
\* leading //, none appears twice, and they are the first 3 (or fewer)
\* distinct normalized URLs in the order first seen; one matching gallery
\* image gives exactly its one normalized URL
C20_GalleryUrlsNormalized ==
    (xRun.pc = "done" /\ xRun.galleryRan) =>
        LET images  == xRun.result.images
            matches == GalleryMatches(xPage)
            first   == FirstSeen(matches)
        IN  /\ \A k \in 1..Len(images) :
                   images[k].query = "" /\ images[k].scheme # "//"
            /\ \A j, k \in 1..Len(images) : j # k => images[j] # images[k]
            /\ Len(images) = IF Cardinality(first) < 3 THEN Cardinality(first) ELSE 3
            /\ \A k \in 1..Len(images) : images[k] = Normalized(matches[Kth(first, k)])
            /\ Len(matches) = 1 => images = << Normalized(matches[1]) >>

\* the gallery held four charts, two of them protocol-relative, and a srcset
\* whose last candidate is the first chart again: the fallback returned the
\* first three distinct ones
C20_Witness ==
    /\ xRun.pc = "done"
    /\ xRun.galleryRan
    /\ xPage.gallery = << Url("//", "cdn/size-chart-womens.jpg", "v=1"),
                          Url("https://", "cdn/sizechart.png", ""),
                          Url("https://", "cdn/measurements.png", "v=2"),
                          Url("//", "cdn/size-guide.png", "") >>
    /\ xPage.srcsets = << << Url("//", "cdn/size-chart-womens.jpg", "v=1&width=200"),
                             Url("//", "cdn/size-chart-womens.jpg", "v=1&width=800") >> >>
    /\ Cardinality(FirstSeen(GalleryMatches(xPage))) = 4
    /\ xRun.result.images = << Url("https://", "cdn/size-chart-womens.jpg", ""),
                               Url("https://", "cdn/sizechart.png", ""),
                               Url("https://", "cdn/measurements.png", "") >>

\* the steps of run in program order; save_write is the write inside the
\* store, mfp_check the second half of interact_with_triggers
StepOrder ==
    << "goto", "lookup", "detect", "store", "save_write", "interact", "mfp_check",
       "wait", "extract", "fallback", "print", "done" >>

Steps == { StepOrder[k] : k \in 1..Len(StepOrder) }

StepRank(pc) == CHOOSE k \in 1..Len(StepOrder) : StepOrder[k] = pc

\* C21: within one run the steps happen in the order navigate, cache lookup,
\* detect and cache write (on a miss only), interact, wait, extract, gallery
\* fallback, result output: every step of a run moves to a later step (or
\* raises out of run), no step is entered twice, and detection, extraction and
\* the gallery scan happen only at their own step
C21_StepsInOrder ==
    [][\A i \in Instances :
          LET s == scraper[i]
              t == scraper'[i]
          IN  (s.entry = "run" /\ t # s /\ s.pc \in Steps) =>
                /\ \/ t.pc = "raised"
                   \/ t.pc = "idle" /\ s.pc = "done"
                   \/ /\ t.pc \in Steps
                      /\ StepRank(t.pc) > StepRank(s.pc)
                   \/ s.pc = "save_write" /\ t.pc = "save_write" /\ t.wpos > s.wpos
                /\ (t.pc = "detect") => s.pc = "lookup"
                /\ (t.pc = "store") => s.pc = "detect"
                /\ (t.pc # "idle" /\ t.detected # s.detected) => s.pc = "detect"
                /\ (t.pc # "idle" /\ t.extracted # s.extracted) => s.pc = "extract"
                /\ (t.pc # "idle" /\ t.galleryRan # s.galleryRan) => s.pc = "fallback"]_vars

\* a run that took every step: it detected, stored, interacted, waited,
\* extracted, scanned the gallery and printed
C21_Witness ==
    \E i \in Instances :
        LET s == scraper[i] IN
        /\ s.entry = "run"
        /\ s.pc = "done"
        /\ s.raisedBy = None
        /\ s.detected
        /\ InCache(s.brand_cache, s.domain)
        /\ s.extracted
        /\ s.galleryRan

\* two netlocs that differ only in letter case and/or one leading "www."
Variant(u, v) ==
    \/ Lower(u) = Lower(v)
    \/ Lower(u) = << "www" >> \o Lower(v)
    \/ Lower(v) = << "www" >> \o Lower(u)

\* the same, where the netloc without the prefix does not begin with "www."
\* itself
BareVariant(u, v) ==
    \/ Lower(u) = Lower(v)
    \/ Lower(u) = << "www" >> \o Lower(v) /\ ~StartsWithWww(Lower(v))
    \/ Lower(v) = << "www" >> \o Lower(u) /\ ~StartsWithWww(Lower(u))

\* no two entries of a mapping have the same key, and every key is lower-case
OneEntryPerKey(cache) ==
    /\ \A j, k \in 1..Len(cache) : j # k => cache[j][1] # cache[k][1]
    /\ \A k \in 1..Len(cache) : Lower(cache[k][1]) = cache[k][1]

\* the caches in memory, the mappings written to their end and the mapping on
\* disk hold one entry per key, and an instance that stored has exactly one
\* entry under its own key
CachesHoldOneEntryPerKey ==
    /\ \A i \in Instances : OneEntryPerKey(scraper[i].brand_cache)
    /\ \A m \in completed : OneEntryPerKey(m)
    /\ (file.exists /\ WellFormed(file.data)) => OneEntryPerKey(load_brand_cache(file))
    /\ \A i \in Instances :
          (scraper[i].entry = "run" /\ scraper[i].detected
              /\ scraper[i].pc \in {"save_write", "interact", "done"})
              => Cardinality({ k \in 1..Len(scraper[i].brand_cache) :
                                 scraper[i].brand_cache[k][1] = scraper[i].domain }) = 1

\* C22 as stated: any two URLs whose hosts differ only in letter case and/or
\* one leading "www." have the same cache key, and the cache holds one entry
\* per key
C22_VariantsShareKey ==
    /\ \A i, j \in Instances :
          (scraper[i].pc # "idle" /\ scraper[j].pc # "idle"
              /\ Variant(scraper[i].url, scraper[j].url))
              => scraper[i].domain = scraper[j].domain
    /\ CachesHoldOneEntryPerKey

\* C22, amended: two URLs whose hosts differ only in letter case and/or one
\* leading "www." in front of a host that does not itself begin with "www."
\* have the same cache key, and the cache holds one entry per key: a store for
\* one leaves a single entry under the key of both
C22_BareVariantsShareKey ==
    /\ \A i, j \in Instances :
          (scraper[i].pc # "idle" /\ scraper[j].pc # "idle"
              /\ BareVariant(scraper[i].url, scraper[j].url))
              => scraper[i].domain = scraper[j].domain
    /\ CachesHoldOneEntryPerKey

\* WWW.Shop and shop were both detected and stored, one after the other; the
\* file holds the one entry of the one key
C22_Witness ==
    /\ scraper[1].url = << "WWW", "Shop" >>
    /\ scraper[2].url = << "shop" >>
    /\ \A i \in Instances :
          /\ scraper[i].entry = "run"
          /\ scraper[i].pc = "interact"
          /\ scraper[i].detected
          /\ scraper[i].brand_cache \in completed
    /\ file.exists
    /\ WellFormed(file.data)
    /\ Len(load_brand_cache(file)) = 1
    /\ load_brand_cache(file)[1][1] = << "shop" >>

C24_BareSizeOnlyOnAccordions ==
    \A i \in Instances :
        LET s == scraper[i] IN
        \A k \in s.clicks.triggered :
            LET el == PageTable[s.page].elems[k] IN
            (el.text.size /\ ~el.text.primary /\ ~el.titlePrimary /\ ~el.classPrimary)
                => (el.tag \in {"summary", "details"} \/ el.accordionClass)

\* C25: when the Shopify fetch failed and the generic scraper's data was
\* adapted, the UPDATE writes the title, the description, the prices and the
\* images of the generic data, and it does not set is_available to anything
\* but the availability the adapted data carries (True)
C25_GenericDataIsWritten ==
    batch.lastSource = "generic" =>
        LET row == batch.lastRow
        IN  /\ {"title", "description", "price_discounted", "price_original", "images"}
                 \subseteq DOMAIN row
            /\ row.title = GenericProduct.title
            /\ row.description = GenericProduct.description
            /\ row.images = GenericProduct.images
            /\ "is_available" \in DOMAIN row => row.is_available = TRUE

\* C26: progress.json is written at least once per ten products handled,
\* whatever their outcomes, and after every batch it holds the current
\* last_processed_id and counters
C26_ProgressEveryTen ==
    /\ batch.sinceSave < 10
    /\ batch.pc = "query" /\ batch.batches > 0 =>
           batch.saved = [last_processed_id |-> batch.last_id,
                          total_processed   |-> batch.total_processed,
                          total_updated     |-> batch.total_updated,
                          total_errors      |-> batch.total_errors]

\* C28: total_processed, and the run's processed, grow by exactly one per
\* product handled, whatever its outcome; total_updated + total_errors never
\* exceeds total_processed
C28_OneCountPerProduct ==
    /\ batch.total_processed = batch.handled
    /\ batch.processed = batch.handled
    /\ batch.total_updated + batch.total_errors <= batch.total_processed

\* the loop iterations of main handled each product at most once, and every
\* batch in hand holds only products no earlier iteration handled
NoProductTwice ==
    /\ ~batch.twice
    /\ \A k \in 1..Len(batch.products) :
           k >= batch.idx => batch.products[k] \notin batch.seen

\* C29: over a finite table main terminates, and on the way no product is
\* handled twice and no batch contains a product handled before
C29_MainTerminates == <>(batch.pc = "done") /\ []NoProductTwice

\* main ended after the query came back empty: every product was handled
\* once, some were deleted, some updated, some failed, over several batches
C29_Witness ==
    /\ batch.pc = "done"
    /\ batch.seen = 1..MaxProducts
    /\ batch.handled = MaxProducts
    /\ batch.batches >= 2
    /\ batch.table # 1..MaxProducts
    /\ batch.total_updated > 0
    /\ batch.total_errors > 0

\* C27: when instance i stored an entry for its domain, and instance j, whose
\* cache was loaded before that store, afterwards stored an entry for another
\* domain, undisturbed and to the end, the file holds the entries of both
C27_NoEntryLostBetweenInstances ==
    \A i, j \in Instances :
        LET a == scraper[i]
            b == scraper[j]
        IN  (/\ i # j
             /\ a.entry = "run" /\ b.entry = "run"
             /\ a.detected /\ b.detected
             /\ a.pc = "interact" /\ b.pc = "interact"
             /\ a.domain # b.domain
             /\ a.brand_cache \in completed
             \* j opened the file as i's store had left it
             /\ b.alone
             /\ b.prevFile.exists
             /\ b.prevFile.data = Dump(a.brand_cache)
             /\ InCache(a.brand_cache, a.domain)
             /\ file.data = Dump(b.brand_cache))
            => /\ InCache(load_brand_cache(file), a.domain)
               /\ InCache(load_brand_cache(file), b.domain)

\* C30: the result run ends with comes from one phase.  When the gallery scan
\* ran it holds the gallery's images and nothing else; otherwise, when the
\* general script ran it is that script's result as a whole; otherwise it is
\* the modal script's result as a whole, which has no text block
C30_ResultOfOnePhase ==
    xRun.pc = "done" =>
        LET result == xRun.result
        IN  IF xRun.galleryRan
            THEN /\ result.table = Absent
                 /\ ~HasText(result)
                 /\ result.images = FirstThree(GalleryScript(xPage))
            ELSE IF xRun.generalRan
            THEN /\ result = GeneralScript(xPage)
                 /\ ~NothingFound(result)
            ELSE /\ result = ModalScript(xPage)
                 /\ result.foundModal
                 /\ "textHtml" \notin DOMAIN result

\* a modal was found and held nothing, the candidates held nothing, and the
\* result is the gallery's images alone
C30_Witness ==
    /\ xRun.pc = "done"
    /\ xPage.modal # Absent
    /\ xPage.candidates # << >>
    /\ xRun.generalRan
    /\ xRun.galleryRan
    /\ xRun.result.table = Absent
    /\ xRun.result.images # << >>
    /\ ~HasText(xRun.result)

====
